---- MODULE Spec2Model ----
(***************************************************************************)
(* A model of the klang interpreter (src/klang.cpp): the character-level   *)
(* Lexer, the recursive-descent Parser, the SymbolTable and the visiting   *)
(* Interpreter, driven by main's parse-one-statement / run-it loop.        *)
(*                                                                         *)
(* Strings of the program (source text, token values, variable names,      *)
(* stored values, the output stream) are sequences of one-character        *)
(* strings, so that std::to_string and std::stoi are real conversions.     *)
(* The recursion of the visitor is an explicit stack of frames, one frame  *)
(* per active visit() call, holding the node, the locals of the call and   *)
(* the place the call has reached.                                         *)
(***************************************************************************)
EXTENDS Integers, Sequences, FiniteSets, TLC

VARIABLES
    text,           \* Lexer::text, the program text
    pos,            \* Lexer::pos of the parser's lexer
    current_token,  \* Parser::current_token
    symbolTable,    \* SymbolTable::table, name -> Entry
    lastValue,      \* Interpreter::lastValue, <<>> (empty optional) or <<v>>
    out,            \* the characters written to std::cout
    stack,          \* the active visit() calls, innermost last
    ast,            \* main's `ast`, the statement parsed last
    pc,             \* main's position
    err,            \* the exception main caught, "none" before
    call,           \* SymbolTable driver: the call made last
    ret             \* SymbolTable driver: what that call returned or threw

vars == <<text, pos, current_token, symbolTable, lastValue, out, stack, ast, pc, err, call, ret>>

(***************************************************************************)
(* Characters and the <cctype> classes the lexer uses.                     *)
(***************************************************************************)
NUL == "NUL"

Digits == {"0", "1", "2", "3", "4", "5", "6", "7", "8", "9"}

Letters ==
    {"a", "b", "c", "d", "e", "f", "g", "h", "i", "j", "k", "l", "m",
     "n", "o", "p", "q", "r", "s", "t", "u", "v", "w", "x", "y", "z",
     "A", "B", "C", "D", "E", "F", "G", "H", "I", "J", "K", "L", "M",
     "N", "O", "P", "Q", "R", "S", "T", "U", "V", "W", "X", "Y", "Z"}

Spaces == {" ", "\n", "\t", "\r", "\f"}

isspace(c) == c \in Spaces
isdigit(c) == c \in Digits
isalpha(c) == c \in Letters
isalnum(c) == c \in Letters \cup Digits

DigitVal(c) ==
    CASE c = "0" -> 0 [] c = "1" -> 1 [] c = "2" -> 2 [] c = "3" -> 3
      [] c = "4" -> 4 [] c = "5" -> 5 [] c = "6" -> 6 [] c = "7" -> 7
      [] c = "8" -> 8 [] c = "9" -> 9

DigitChar(d) ==
    CASE d = 0 -> "0" [] d = 1 -> "1" [] d = 2 -> "2" [] d = 3 -> "3"
      [] d = 4 -> "4" [] d = 5 -> "5" [] d = 6 -> "6" [] d = 7 -> "7"
      [] d = 8 -> "8" [] d = 9 -> "9"

INT_MAX == 2147483647

(***************************************************************************)
(* std::to_string(int): the decimal text, "-" first for a negative value.  *)
(***************************************************************************)
RECURSIVE to_string(_)
to_string(n) ==
    IF n < 0 THEN <<"-">> \o to_string(0 - n)
    ELSE IF n < 10 THEN <<DigitChar(n)>>
    ELSE to_string(n \div 10) \o <<DigitChar(n % 10)>>

(***************************************************************************)
(* std::stoi(s): an optional sign, then the longest run of digits.         *)
(* StoiFails(s) is the case in which it throws: no digit to convert        *)
(* (std::invalid_argument) or a value outside int (std::out_of_range).     *)
(***************************************************************************)
RECURSIVE StoiRun(_, _, _)
StoiRun(s, k, acc) ==
    IF k > Len(s) \/ ~isdigit(s[k]) THEN acc
    ELSE IF acc < 0 \/ acc > (INT_MAX - DigitVal(s[k])) \div 10 THEN -1
    ELSE StoiRun(s, k + 1, acc * 10 + DigitVal(s[k]))

StoiNeg(s) == Len(s) > 0 /\ s[1] = "-"

StoiFirst(s) == IF StoiNeg(s) \/ (Len(s) > 0 /\ s[1] = "+") THEN 2 ELSE 1

StoiFails(s) ==
    \/ StoiFirst(s) > Len(s)
    \/ ~isdigit(s[StoiFirst(s)])
    \/ StoiRun(s, StoiFirst(s), 0) < 0

stoi(s) ==
    IF StoiNeg(s) THEN 0 - StoiRun(s, StoiFirst(s), 0)
    ELSE StoiRun(s, StoiFirst(s), 0)

(***************************************************************************)
(* Lexer.  A lexer call takes the position it starts at and yields the     *)
(* position it stops at; current_char is text[pos], or '\0' past the end.  *)
(***************************************************************************)
current_char(p) == IF p >= Len(text) THEN NUL ELSE text[p + 1]

advance(p) == p + 1

RECURSIVE skip_whitespace(_)
skip_whitespace(p) ==
    IF current_char(p) # NUL /\ isspace(current_char(p))
    THEN skip_whitespace(advance(p))
    ELSE p

\* The end of the run of digits integer() collects from p.
RECURSIVE integer_end(_)
integer_end(p) ==
    IF current_char(p) # NUL /\ isdigit(current_char(p))
    THEN integer_end(advance(p))
    ELSE p

\* The end of the run handle_identifier() collects from p.
RECURSIVE identifier_end(_)
identifier_end(p) ==
    IF current_char(p) # NUL /\ (isalnum(current_char(p)) \/ current_char(p) = "_")
    THEN identifier_end(advance(p))
    ELSE p

Token(type, value, p) == [type |-> type, value |-> value, pos |-> p, err |-> "none"]

LexThrow(e, p) == [type |-> "NONE", value |-> <<>>, pos |-> p, err |-> e]

integer(p) ==
    LET q == integer_end(p)
        result == SubSeq(text, p + 1, q)
    IN  IF StoiFails(result) THEN LexThrow("stoi", q)
        ELSE Token("INTEGER", to_string(stoi(result)), q)

keywords(id) ==
    CASE id = <<"p", "r", "i", "n", "t">> -> "PRINT"
      [] id = <<"i", "f">> -> "IF"
      [] id = <<"t", "h", "e", "n">> -> "THEN"
      [] id = <<"e", "n", "d">> -> "END"
      [] id = <<"a", "n", "d">> -> "AND"
      [] id = <<"o", "r">> -> "OR"
      [] id = <<"f", "o", "r">> -> "FOR"
      [] id = <<"t", "o">> -> "TO"
      [] id = <<"w", "h", "i", "l", "e">> -> "WHILE"
      [] OTHER -> "ID"

handle_identifier(p) ==
    LET q == identifier_end(p)
        id == SubSeq(text, p + 1, q)
    IN  Token(keywords(id), id, q)

\* A handle_operator that takes the character after the operator as its second
\* character without looking at it.
handle_operatorTwoChars(p) ==
    LET op == current_char(p)
        q == advance(advance(p))
    IN  CASE op = "=" -> Token("EQUAL_TO", <<"=", "=">>, q)
          [] op = "!" -> Token("NOT_EQUAL_TO", <<"!", "=">>, q)
          [] op = ">" -> Token("GREATER_THAN_OR_EQUAL_TO", <<">", "=">>, q)
          [] op = "<" -> Token("LESS_THAN_OR_EQUAL_TO", <<"<", "=">>, q)
          [] OTHER -> LexThrow("Invalid operator", q)

handle_operator(p) ==
    LET op == current_char(p)
        q == advance(p)
        eq == current_char(q) = "="
    IN  CASE op = "=" -> IF eq THEN Token("EQUAL_TO", <<"=", "=">>, advance(q))
                         ELSE Token("ASSIGN", <<"=">>, q)
          [] op = "!" -> IF eq THEN Token("NOT_EQUAL_TO", <<"!", "=">>, advance(q))
                         ELSE LexThrow("Invalid operator", q)
          [] op = ">" -> IF eq THEN Token("GREATER_THAN_OR_EQUAL_TO", <<">", "=">>, advance(q))
                         ELSE Token("GREATER_THAN", <<">">>, q)
          [] op = "<" -> IF eq THEN Token("LESS_THAN_OR_EQUAL_TO", <<"<", "=">>, advance(q))
                         ELSE Token("LESS_THAN", <<"<">>, q)
          [] OTHER -> LexThrow("Invalid operator", q)

RECURSIVE get_next_token(_)
get_next_token(p) ==
    LET c == current_char(p)
    IN  IF c = NUL THEN Token("EOF_TOKEN", <<>>, p)
        ELSE IF isspace(c) THEN get_next_token(skip_whitespace(p))
        ELSE IF isdigit(c) THEN integer(p)
        ELSE IF isalpha(c) THEN handle_identifier(p)
        ELSE IF c \in {"=", "!", ">", "<"} THEN handle_operator(p)
        ELSE IF c = "+" THEN Token("PLUS", <<"+">>, advance(p))
        ELSE IF c = "-" THEN Token("MINUS", <<"-">>, advance(p))
        ELSE IF c = "*" THEN Token("MUL", <<"*">>, advance(p))
        ELSE IF c = "/" THEN Token("DIV", <<"/">>, advance(p))
        ELSE IF c = "(" THEN Token("LPAREN", <<"(">>, advance(p))
        ELSE IF c = ")" THEN Token("RPAREN", <<")">>, advance(p))
        ELSE IF c = "," THEN Token("COMMA", <<",">>, advance(p))
        ELSE LexThrow("Invalid character", p)

(***************************************************************************)
(* AST nodes: one record shape per node class.                             *)
(***************************************************************************)
NumberNode(value) == [kind |-> "Number", value |-> value]

VariableNode(name) == [kind |-> "Variable", name |-> name]

BinaryOpNode(op, left, right) ==
    [kind |-> "BinaryOp", op |-> op, left |-> left, right |-> right]

ComparisonNode(op, left, right) ==
    [kind |-> "Comparison", op |-> op, left |-> left, right |-> right]

LogicalOpNode(op, left, right) ==
    [kind |-> "LogicalOp", op |-> op, left |-> left, right |-> right]

AssignNode(name, value) == [kind |-> "Assign", name |-> name, value |-> value]

PrintNode(expressions) == [kind |-> "Print", expressions |-> expressions]

IfNode(condition, body) == [kind |-> "If", condition |-> condition, body |-> body]

WhileNode(condition, body) == [kind |-> "While", condition |-> condition, body |-> body]

ForNode(var_name, start, end, body) ==
    [kind |-> "For", var_name |-> var_name, start |-> start, end |-> end, body |-> body]

NoNode == [kind |-> "None"]

(***************************************************************************)
(* Parser.  A parser state r holds the lexer position, current_token, the  *)
(* node the method called last has returned and the exception in flight    *)
(* ("none" while there is none).  Every method takes the state it starts   *)
(* in and yields the state it leaves; once an exception is in flight no    *)
(* method does anything more, which is how the throw reaches main.         *)
(***************************************************************************)
ParserState(p, tok) == [err |-> "none", pos |-> p, tok |-> tok, node |-> NoNode]

Failed(r) == r.err # "none"

Throw(r, e) == [r EXCEPT !.err = e]

Returns(r, node) == [r EXCEPT !.node = node]

\* current_token = lexer.get_next_token(), t being what the lexer yields.
SetToken(r, t) ==
    IF t.err # "none" THEN Throw(r, t.err)
    ELSE [r EXCEPT !.pos = t.pos, !.tok = [type |-> t.type, value |-> t.value]]

eat(r, token_type) ==
    IF Failed(r) THEN r
    ELSE IF r.tok.type = token_type THEN SetToken(r, get_next_token(r.pos))
    ELSE Throw(r, "Unexpected token")

\* std::make_unique<NumberNode>(std::stoi(token.value)), r the state after eat.
MakeNumber(token, r) ==
    IF Failed(r) THEN r
    ELSE IF StoiFails(token.value) THEN Throw(r, "stoi")
    ELSE Returns(r, NumberNode(stoi(token.value)))

MakeVariable(token, r) ==
    IF Failed(r) THEN r ELSE Returns(r, VariableNode(token.value))

\* std::make_unique<BinaryOpNode>(op, std::move(node), <right operand>).
MakeBinaryOp(op, node, r) ==
    IF Failed(r) THEN r ELSE Returns(r, BinaryOpNode(op, node, r.node))

MakeComparison(op, left, r) ==
    IF Failed(r) THEN r ELSE Returns(r, ComparisonNode(op, left, r.node))

MakeLogicalOp(op, node, r) ==
    IF Failed(r) THEN r ELSE Returns(r, LogicalOpNode(op, node, r.node))

RECURSIVE factor(_), term_loop(_), expr_loop(_)

\* `auto node = expr(); eat(RPAREN); return node;`
factor_paren(node) == Returns(eat(node, "RPAREN"), node.node)

term(r) == term_loop(factor(r))

expr(r) == expr_loop(term(r))

factor(r) ==
    IF Failed(r) THEN r
    ELSE IF r.tok.type = "INTEGER" THEN MakeNumber(r.tok, eat(r, "INTEGER"))
    ELSE IF r.tok.type = "ID" THEN MakeVariable(r.tok, eat(r, "ID"))
    ELSE IF r.tok.type = "LPAREN" THEN factor_paren(expr(eat(r, "LPAREN")))
    ELSE Throw(r, "Syntax error in factor")

\* The loop of term(), r.node being `node`.
term_loop(r) ==
    IF Failed(r) THEN r
    ELSE IF r.tok.type \in {"MUL", "DIV"}
    THEN term_loop(MakeBinaryOp(r.tok.type, r.node, factor(eat(r, r.tok.type))))
    ELSE r

\* A loop of expr() that groups from the right: a - (b - c).
expr_loopRight(r) ==
    IF Failed(r) THEN r
    ELSE IF r.tok.type \in {"PLUS", "MINUS"}
    THEN MakeBinaryOp(r.tok.type, r.node, expr(eat(r, r.tok.type)))
    ELSE r

\* The loop of expr(), r.node being `node`.
expr_loop(r) ==
    IF Failed(r) THEN r
    ELSE IF r.tok.type \in {"PLUS", "MINUS"}
    THEN expr_loop(MakeBinaryOp(r.tok.type, r.node, term(eat(r, r.tok.type))))
    ELSE r

ComparisonOps ==
    {"EQUAL_TO", "NOT_EQUAL_TO", "GREATER_THAN", "LESS_THAN",
     "GREATER_THAN_OR_EQUAL_TO", "LESS_THAN_OR_EQUAL_TO"}

\* simple_condition() from `TokenType op = current_token.type` on, left after expr().
simple_condition_op(left) ==
    IF Failed(left) THEN left
    ELSE IF left.tok.type \in ComparisonOps
    THEN MakeComparison(left.tok.type, left.node, expr(eat(left, left.tok.type)))
    ELSE Throw(left, "Invalid comparison operator")

simple_condition(r) == simple_condition_op(expr(r))

\* A loop of condition() that groups from the right: c1 op (c2 op c3).
RECURSIVE condition_loopRight(_)
condition_loopRight(r) ==
    IF Failed(r) THEN r
    ELSE IF r.tok.type \in {"AND", "OR"}
    THEN MakeLogicalOp(r.tok.type, r.node,
                       condition_loopRight(simple_condition(eat(r, r.tok.type))))
    ELSE r

\* The loop of condition(), r.node being `node`.
RECURSIVE condition_loop(_)
condition_loop(r) ==
    IF Failed(r) THEN r
    ELSE IF r.tok.type \in {"AND", "OR"}
    THEN condition_loop(MakeLogicalOp(r.tok.type, r.node, simple_condition(eat(r, r.tok.type))))
    ELSE r

condition(r) == condition_loop(simple_condition(r))

\* vector.push_back(<node>), x the state after the call that yields the node.
push_back(vector, x) ==
    IF Failed(x) THEN x ELSE Returns(x, Append(vector, x.node))

\* The loop of print_statement(), r.node being `expressions`.
RECURSIVE print_loop(_)
print_loop(r) ==
    IF Failed(r) THEN r
    ELSE IF r.tok.type = "COMMA"
    THEN print_loop(push_back(r.node, expr(eat(r, "COMMA"))))
    ELSE r

MakePrint(r) ==
    IF Failed(r) THEN r ELSE Returns(r, PrintNode(r.node))

print_statement(r) ==
    MakePrint(eat(print_loop(push_back(<<>>, expr(eat(eat(r, "PRINT"), "LPAREN")))), "RPAREN"))

MakeAssign(var_name, r) ==
    IF Failed(r) THEN r ELSE Returns(r, AssignNode(var_name, r.node))

assignment_statement(r) ==
    MakeAssign(r.tok.value, expr(eat(eat(r, "ID"), "ASSIGN")))

RECURSIVE statement(_), body_loop(_)

\* The loop of the three block statements, `while (current_token.type != END)`,
\* r.node being `body`.
body_loop(r) ==
    IF Failed(r) THEN r
    ELSE IF r.tok.type # "END" THEN body_loop(push_back(r.node, statement(r)))
    ELSE r

\* `std::vector<std::unique_ptr<AST>> body;` and the loop that fills it.
block(r) == body_loop(Returns(r, <<>>))

MakeIf(cond, r) ==
    IF Failed(r) THEN r ELSE Returns(r, IfNode(cond, r.node))

\* if_statement() after `auto cond = condition()`.
if_body(cond) ==
    MakeIf(cond.node, eat(block(eat(cond, "THEN")), "END"))

if_statement(r) == if_body(condition(eat(r, "IF")))

MakeWhile(cond, r) ==
    IF Failed(r) THEN r ELSE Returns(r, WhileNode(cond, r.node))

\* while_statement() after `auto cond = condition()`.
while_body(cond) ==
    MakeWhile(cond.node, eat(block(eat(cond, "THEN")), "END"))

while_statement(r) == while_body(condition(eat(r, "WHILE")))

MakeFor(var_name, start, end, r) ==
    IF Failed(r) THEN r ELSE Returns(r, ForNode(var_name, start, end, r.node))

\* for_statement() after `auto end = expr()`.
for_body(var_name, start, end) ==
    MakeFor(var_name, start, end.node, eat(block(end), "END"))

\* for_statement() after `auto start = expr()`.
for_end(var_name, start) ==
    for_body(var_name, start.node, expr(eat(start, "TO")))

\* for_statement() after eat(FOR), where current_token is the loop variable.
for_start(r) ==
    for_end(r.tok.value, expr(eat(eat(r, "ID"), "ASSIGN")))

for_statement(r) == for_start(eat(r, "FOR"))

statement(r) ==
    IF Failed(r) THEN r
    ELSE CASE r.tok.type = "IF" -> if_statement(r)
           [] r.tok.type = "FOR" -> for_statement(r)
           [] r.tok.type = "WHILE" -> while_statement(r)
           [] r.tok.type = "ID" -> assignment_statement(r)
           [] r.tok.type = "PRINT" -> print_statement(r)
           [] OTHER -> Throw(r, "Invalid statement")

(***************************************************************************)
(* SymbolTable.  The table is a function from the names stored to their    *)
(* entries; get yields <<>> for std::nullopt and <<entry>> otherwise.      *)
(***************************************************************************)
EmptyTable == [n \in {} |-> [type |-> "", value |-> <<>>]]

Entry(type, value) == [type |-> type, value |-> value]

\* The condition on which addOrUpdate throws "Type mismatch".
addOrUpdateThrows(table, name, type) ==
    name \in DOMAIN table /\ table[name].type # type

\* An addOrUpdate that stores before it compares the types.
addOrUpdateStoresFirst(table, name, type, value) ==
    [n \in DOMAIN table \cup {name} |-> IF n = name THEN Entry(type, value) ELSE table[n]]

\* The table addOrUpdate leaves behind.
addOrUpdate(table, name, type, value) ==
    IF addOrUpdateThrows(table, name, type) THEN table
    ELSE [n \in DOMAIN table \cup {name} |->
            IF n = name THEN Entry(type, value) ELSE table[n]]

get(table, name) ==
    IF name \in DOMAIN table THEN <<table[name]>> ELSE <<>>

(***************************************************************************)
(* Interpreter.  A frame is one active visit() call: its node, where the   *)
(* call stands (pc) and its locals.  A visit action runs the code of the   *)
(* method from where the call stands up to its next accept() call, its     *)
(* next loop test, its return or its throw.                                *)
(*                                                                         *)
(* int arithmetic is the mathematical one: the programs explored keep      *)
(* every value far inside the range of int.                                *)
(***************************************************************************)
Frame(node) ==
    CASE node.kind \in {"BinaryOp", "Comparison"} ->
            [node |-> node, pc |-> "begin", left |-> 0, right |-> 0]
      [] node.kind = "LogicalOp" ->
            [node |-> node, pc |-> "begin", left |-> FALSE, right |-> FALSE]
      [] node.kind = "Print" ->
            [node |-> node, pc |-> "begin", first |-> TRUE, idx |-> 0]
      [] node.kind \in {"If", "While"} ->
            [node |-> node, pc |-> "begin", idx |-> 0]
      [] node.kind = "For" ->
            [node |-> node, pc |-> "begin", start |-> 0, end |-> 0, i |-> 0, idx |-> 0]
      [] OTHER -> [node |-> node, pc |-> "begin"]

Top == stack[Len(stack)]

Visiting(kind) == pc = "run" /\ stack # <<>> /\ Top.node.kind = kind

SetTop(f) == [stack EXCEPT ![Len(stack)] = f]

\* node->accept(*this) from the call f, which goes on at f.pc afterwards.
Accept(f, node) ==
    /\ stack' = Append(SetTop(f), Frame(node))
    /\ UNCHANGED <<pc, err>>

\* The call goes on in the same method (a loop edge).
Goto(f) ==
    /\ stack' = SetTop(f)
    /\ UNCHANGED <<pc, err>>

\* The call returns to its caller: a visit() below it, or main's loop.
Return ==
    /\ stack' = SubSeq(stack, 1, Len(stack) - 1)
    /\ pc' = IF Len(stack) = 1 THEN "loop" ELSE pc
    /\ err' = err

\* An exception that ends only the call that throws: the caller goes on.
RaiseResumes(e) ==
    /\ stack' = SubSeq(stack, 1, Len(stack) - 1)
    /\ pc' = IF Len(stack) <= 1 THEN "loop" ELSE pc
    /\ err' = e

\* An exception: every active call is unwound and main's catch returns 1.
Raise(e) ==
    /\ stack' = <<>>
    /\ pc' = "error"
    /\ err' = e

HasValue == lastValue # <<>>

Bool(b) == IF b THEN 1 ELSE 0

Abs(n) == IF n < 0 THEN 0 - n ELSE n

\* The quotient rounded down, toward minus infinity.
IntDivFloor(left, right) ==
    IF right > 0 THEN left \div right ELSE (0 - left) \div (0 - right)

\* int / int of C++: the quotient truncated toward zero.
IntDiv(left, right) ==
    IF (left < 0) = (right < 0) THEN Abs(left) \div Abs(right)
    ELSE 0 - (Abs(left) \div Abs(right))

\* The switch of visit(BinaryOpNode*): the value stored, or the throw.
BinaryOp(op, left, right) ==
    CASE op = "PLUS" -> [err |-> "none", value |-> left + right]
      [] op = "MINUS" -> [err |-> "none", value |-> left - right]
      [] op = "MUL" -> [err |-> "none", value |-> left * right]
      [] op = "DIV" -> IF right = 0 THEN [err |-> "Division by zero", value |-> 0]
                       ELSE [err |-> "none", value |-> IntDiv(left, right)]
      [] OTHER -> [err |-> "Invalid binary operator", value |-> 0]

\* The switch of visit(ComparisonNode*).
Comparison(op, left, right) ==
    CASE op = "EQUAL_TO" -> [err |-> "none", value |-> Bool(left = right)]
      [] op = "NOT_EQUAL_TO" -> [err |-> "none", value |-> Bool(left # right)]
      [] op = "GREATER_THAN" -> [err |-> "none", value |-> Bool(left > right)]
      [] op = "LESS_THAN" -> [err |-> "none", value |-> Bool(left < right)]
      [] op = "GREATER_THAN_OR_EQUAL_TO" -> [err |-> "none", value |-> Bool(left >= right)]
      [] op = "LESS_THAN_OR_EQUAL_TO" -> [err |-> "none", value |-> Bool(left <= right)]
      [] OTHER -> [err |-> "Invalid comparison operator", value |-> 0]

VisitBinaryOp ==
    /\ Visiting("BinaryOp")
    /\ UNCHANGED <<text, pos, current_token, symbolTable, out, ast, call, ret>>
    /\ LET f == Top
       IN  IF f.pc = "begin"
           THEN Accept([f EXCEPT !.pc = "left"], f.node.left) /\ UNCHANGED lastValue
           ELSE IF ~HasValue
           THEN Raise("bad optional access") /\ UNCHANGED lastValue
           ELSE IF f.pc = "left"
           THEN Accept([f EXCEPT !.left = lastValue[1], !.pc = "right"], f.node.right)
                /\ UNCHANGED lastValue
           ELSE LET r == BinaryOp(f.node.op, f.left, lastValue[1])
                IN  IF r.err # "none"
                    THEN Raise(r.err) /\ UNCHANGED lastValue
                    ELSE lastValue' = <<r.value>> /\ Return

\* A visit of a number that returns without writing lastValue.
VisitNumberSilent ==
    /\ Visiting("Number")
    /\ UNCHANGED <<text, pos, current_token, symbolTable, out, ast, call, ret>>
    /\ UNCHANGED lastValue
    /\ Return

VisitNumber ==
    /\ Visiting("Number")
    /\ UNCHANGED <<text, pos, current_token, symbolTable, out, ast, call, ret>>
    /\ lastValue' = <<Top.node.value>>
    /\ Return

VisitVariable ==
    /\ Visiting("Variable")
    /\ UNCHANGED <<text, pos, current_token, symbolTable, out, ast, call, ret>>
    /\ LET entry == get(symbolTable, Top.node.name)
       IN  IF entry = <<>>
           THEN Raise("Undefined variable") /\ UNCHANGED lastValue
           ELSE IF StoiFails(entry[1].value)
           THEN Raise("stoi") /\ UNCHANGED lastValue
           ELSE lastValue' = <<stoi(entry[1].value)>> /\ Return

\* An assignment that files a value of 0 or 1 under the tag "BOOLEAN".
VisitAssignBoolean ==
    /\ Visiting("Assign")
    /\ UNCHANGED <<text, pos, current_token, lastValue, out, ast, call, ret>>
    /\ LET f == Top
           type == IF HasValue /\ lastValue[1] \in {0, 1} THEN "BOOLEAN" ELSE "INTEGER"
       IN  IF f.pc = "begin"
           THEN Accept([f EXCEPT !.pc = "store"], f.node.value) /\ UNCHANGED symbolTable
           ELSE IF ~HasValue
           THEN Raise("bad optional access") /\ UNCHANGED symbolTable
           ELSE IF addOrUpdateThrows(symbolTable, f.node.name, type)
           THEN Raise("Type mismatch") /\ UNCHANGED symbolTable
           ELSE /\ symbolTable' = addOrUpdate(symbolTable, f.node.name, type,
                                              to_string(lastValue[1]))
                /\ Return

VisitAssign ==
    /\ Visiting("Assign")
    /\ UNCHANGED <<text, pos, current_token, lastValue, out, ast, call, ret>>
    /\ LET f == Top
       IN  IF f.pc = "begin"
           THEN Accept([f EXCEPT !.pc = "store"], f.node.value) /\ UNCHANGED symbolTable
           ELSE IF ~HasValue
           THEN Raise("bad optional access") /\ UNCHANGED symbolTable
           ELSE IF addOrUpdateThrows(symbolTable, f.node.name, "INTEGER")
           THEN Raise("Type mismatch") /\ UNCHANGED symbolTable
           ELSE /\ symbolTable' = addOrUpdate(symbolTable, f.node.name, "INTEGER",
                                              to_string(lastValue[1]))
                /\ Return

VisitPrint ==
    /\ Visiting("Print")
    /\ UNCHANGED <<text, pos, current_token, symbolTable, lastValue, ast, call, ret>>
    /\ LET f == Top
       IN  IF f.pc = "begin"
           THEN IF f.idx < Len(f.node.expressions)
                THEN /\ out' = IF ~f.first THEN out \o <<" ">> ELSE out
                     /\ Accept([f EXCEPT !.pc = "write", !.idx = f.idx + 1],
                               f.node.expressions[f.idx + 1])
                ELSE /\ out' = out \o <<"\n">>
                     /\ Return
           ELSE IF ~HasValue
           THEN Raise("bad optional access") /\ UNCHANGED out
           ELSE /\ out' = out \o to_string(lastValue[1])
                /\ Goto([f EXCEPT !.first = FALSE, !.pc = "begin"])

VisitComparison ==
    /\ Visiting("Comparison")
    /\ UNCHANGED <<text, pos, current_token, symbolTable, out, ast, call, ret>>
    /\ LET f == Top
       IN  IF f.pc = "begin"
           THEN Accept([f EXCEPT !.pc = "left"], f.node.left) /\ UNCHANGED lastValue
           ELSE IF ~HasValue
           THEN Raise("bad optional access") /\ UNCHANGED lastValue
           ELSE IF f.pc = "left"
           THEN Accept([f EXCEPT !.left = lastValue[1], !.pc = "right"], f.node.right)
                /\ UNCHANGED lastValue
           ELSE LET r == Comparison(f.node.op, f.left, lastValue[1])
                IN  IF r.err # "none"
                    THEN Raise(r.err) /\ UNCHANGED lastValue
                    ELSE lastValue' = <<r.value>> /\ Return

\* Logical operators that evaluate both operands whatever the left one yields.
VisitLogicalOpEager ==
    /\ Visiting("LogicalOp")
    /\ UNCHANGED <<text, pos, current_token, symbolTable, out, ast, call, ret>>
    /\ LET f == Top
       IN  IF f.pc = "begin"
           THEN Accept([f EXCEPT !.pc = "left"], f.node.left) /\ UNCHANGED lastValue
           ELSE IF ~HasValue
           THEN Raise("bad optional access") /\ UNCHANGED lastValue
           ELSE IF f.pc = "left"
           THEN Accept([f EXCEPT !.left = lastValue[1] # 0, !.pc = "right"], f.node.right)
                /\ UNCHANGED lastValue
           ELSE LET right == lastValue[1] # 0
                IN  /\ lastValue' = <<Bool(IF f.node.op = "AND" THEN f.left /\ right
                                           ELSE f.left \/ right)>>
                    /\ Return

VisitLogicalOp ==
    /\ Visiting("LogicalOp")
    /\ UNCHANGED <<text, pos, current_token, symbolTable, out, ast, call, ret>>
    /\ LET f == Top
       IN  IF f.pc = "begin"
           THEN Accept([f EXCEPT !.pc = "left"], f.node.left) /\ UNCHANGED lastValue
           ELSE IF ~HasValue
           THEN Raise("bad optional access") /\ UNCHANGED lastValue
           ELSE IF f.pc = "left"
           THEN LET left == lastValue[1] # 0
                IN  IF f.node.op = "AND" /\ ~left
                    THEN lastValue' = <<Bool(FALSE)>> /\ Return
                    ELSE IF f.node.op = "OR" /\ left
                    THEN lastValue' = <<Bool(TRUE)>> /\ Return
                    ELSE Accept([f EXCEPT !.left = left, !.pc = "right"], f.node.right)
                         /\ UNCHANGED lastValue
           ELSE LET right == lastValue[1] # 0
                IN  /\ lastValue' = <<Bool(IF f.node.op = "AND" THEN f.left /\ right
                                           ELSE f.left \/ right)>>
                    /\ Return

VisitIf ==
    /\ Visiting("If")
    /\ UNCHANGED <<text, pos, current_token, symbolTable, lastValue, out, ast, call, ret>>
    /\ LET f == Top
       IN  IF f.pc = "begin"
           THEN Accept([f EXCEPT !.pc = "test"], f.node.condition)
           ELSE IF f.pc = "test"
           THEN IF ~HasValue THEN Raise("bad optional access")
                ELSE IF lastValue[1] # 0 THEN Goto([f EXCEPT !.pc = "body", !.idx = 0])
                ELSE Return
           ELSE IF f.idx < Len(f.node.body)
                THEN Accept([f EXCEPT !.idx = f.idx + 1], f.node.body[f.idx + 1])
                ELSE Return

\* A loop that runs its body before it evaluates its condition the first time.
VisitWhileBodyFirst ==
    /\ Visiting("While")
    /\ UNCHANGED <<text, pos, current_token, symbolTable, lastValue, out, ast, call, ret>>
    /\ LET f == Top
       IN  IF f.pc = "begin" /\ f.idx = 0 /\ Len(f.node.body) > 0
           THEN Goto([f EXCEPT !.pc = "body"])
           ELSE IF f.pc = "begin"
           THEN Accept([f EXCEPT !.pc = "test"], f.node.condition)
           ELSE IF f.pc = "test"
           THEN IF ~HasValue THEN Raise("bad optional access")
                ELSE IF lastValue[1] = 0 THEN Return
                ELSE Goto([f EXCEPT !.pc = "body", !.idx = 0])
           ELSE IF f.idx < Len(f.node.body)
                THEN Accept([f EXCEPT !.idx = f.idx + 1], f.node.body[f.idx + 1])
                ELSE Goto([f EXCEPT !.pc = "begin"])

VisitWhile ==
    /\ Visiting("While")
    /\ UNCHANGED <<text, pos, current_token, symbolTable, lastValue, out, ast, call, ret>>
    /\ LET f == Top
       IN  IF f.pc = "begin"
           THEN Accept([f EXCEPT !.pc = "test"], f.node.condition)
           ELSE IF f.pc = "test"
           THEN IF ~HasValue THEN Raise("bad optional access")
                ELSE IF lastValue[1] = 0 THEN Return
                ELSE Goto([f EXCEPT !.pc = "body", !.idx = 0])
           ELSE IF f.idx < Len(f.node.body)
                THEN Accept([f EXCEPT !.idx = f.idx + 1], f.node.body[f.idx + 1])
                ELSE Goto([f EXCEPT !.pc = "begin"])

\* Lines 522-525: the start and the end expression, once each, then `int i = start`.
ForEnter(f) ==
    /\ UNCHANGED symbolTable
    /\ IF f.pc = "begin"
       THEN Accept([f EXCEPT !.pc = "start"], f.node.start)
       ELSE IF ~HasValue THEN Raise("bad optional access")
       ELSE IF f.pc = "start"
       THEN Accept([f EXCEPT !.start = lastValue[1], !.pc = "end"], f.node.end)
       ELSE Goto([f EXCEPT !.end = lastValue[1], !.i = f.start, !.pc = "test"])

\* A loop that keeps its counter in the symbol table: the test reads the loop
\* variable and the increment is stored there, past the last iteration too.
ForTestTable(f) ==
    LET var == f.node.var_name
        cur == IF f.i = f.start THEN f.start ELSE stoi(symbolTable[var].value) + 1
    IN  /\ symbolTable' = addOrUpdate(symbolTable, var, "INTEGER", to_string(cur))
        /\ IF cur <= f.end THEN Goto([f EXCEPT !.pc = "body", !.idx = 0]) ELSE Return

\* A loop that stores the counter when it leaves: the loop variable ends one past
\* the last iteration, and is bound by a loop that does not iterate.
ForTestOnePast(f) ==
    /\ symbolTable' = addOrUpdate(symbolTable, f.node.var_name, "INTEGER", to_string(f.i))
    /\ IF f.i <= f.end THEN Goto([f EXCEPT !.pc = "body", !.idx = 0]) ELSE Return

\* Lines 527-528: `i <= end`, then the loop variable is bound to i.
ForTest(f) ==
    IF f.i <= f.end
    THEN IF addOrUpdateThrows(symbolTable, f.node.var_name, "INTEGER")
         THEN Raise("Type mismatch") /\ UNCHANGED symbolTable
         ELSE /\ symbolTable' = addOrUpdate(symbolTable, f.node.var_name,
                                            "INTEGER", to_string(f.i))
              /\ Goto([f EXCEPT !.pc = "body", !.idx = 0])
    ELSE Return /\ UNCHANGED symbolTable

\* A loop that evaluates its end expression again after every iteration.
ForBodyReevaluate(f) ==
    /\ UNCHANGED symbolTable
    /\ IF f.pc = "next"
       THEN IF ~HasValue THEN Raise("bad optional access")
            ELSE Goto([f EXCEPT !.end = lastValue[1], !.i = f.i + 1, !.pc = "test"])
       ELSE IF f.idx < Len(f.node.body)
       THEN Accept([f EXCEPT !.idx = f.idx + 1], f.node.body[f.idx + 1])
       ELSE Accept([f EXCEPT !.pc = "next"], f.node.end)

\* Lines 529-531 and `i++`: the statements of the body in order, then the increment.
ForBody(f) ==
    /\ UNCHANGED symbolTable
    /\ IF f.idx < Len(f.node.body)
       THEN Accept([f EXCEPT !.idx = f.idx + 1], f.node.body[f.idx + 1])
       ELSE Goto([f EXCEPT !.i = f.i + 1, !.pc = "test"])

VisitFor ==
    /\ Visiting("For")
    /\ UNCHANGED <<text, pos, current_token, lastValue, out, ast, call, ret>>
    /\ IF Top.pc \in {"begin", "start", "end"} THEN ForEnter(Top)
       ELSE IF Top.pc = "test" THEN ForTest(Top)
       ELSE ForBody(Top)

(***************************************************************************)
(* The program texts explored.  Families are built around numerals of      *)
(* 0 .. MaxVal; the others are fixed texts, among them the end-to-end      *)
(* examples of the specification and texts with an error at each stage.    *)
(***************************************************************************)
MaxVal == 3

Vals == 0 .. MaxVal

\* What precedes a for loop: the loop variable unbound, or bound before.
ForPreludes ==
    {
    \* (nothing)
    <<>>,
    \* i = 7 
    <<"i", " ", "=", " ", "7", " ">>
    }

\* Loop bodies: empty, reading i, assigning i, assigning the variable of the end expression.
ForBodies ==
    {
    \* (nothing)
    <<>>,
    \* print(i) 
    <<"p", "r", "i", "n", "t", "(", "i", ")", " ">>,
    \* i = 9 print(i) 
    <<"i", " ", "=", " ", "9", " ", "p", "r", "i", "n", "t", "(", "i", ")", " ">>,
    \* print(i) n = 0 
    <<"p", "r", "i", "n", "t", "(", "i", ")", " ", "n", " ", "=", " ", "0", " ">>
    }

\* pre n = e for i = s to n body end print(i)
ForProgram(pre, s, e, body) ==
    pre
    \o <<"n", " ", "=", " ">>
    \o to_string(e)
    \o <<" ", "f", "o", "r", " ", "i", " ", "=", " ">>
    \o to_string(s)
    \o <<" ", "t", "o", " ", "n", " ">>
    \o body
    \o <<"e", "n", "d", " ", "p", "r", "i", "n", "t", "(", "i", ")">>

\* n = a / while n <= b then print(n) n = n + 1 end
WhileProgram(a, b) ==
    <<"n", " ", "=", " ">>
    \o to_string(a)
    \o <<"\n", "w", "h", "i", "l", "e", " ", "n", " ", "<", "=", " ">>
    \o to_string(b)
    \o <<" ", "t", "h", "e", "n", " ", "p", "r", "i", "n", "t", "(", "n", ")", " ", "n", " ", "=", " ", "n", " ", "+", " ", "1", " ", "e", "n", "d">>

\* k, or (0 - k) for the negative value: the language has no negative literal
Operand(k, neg) ==
    IF neg THEN <<"(", "0", " ", "-", " ">> \o to_string(k) \o <<")">> ELSE to_string(k)

\* q = l / r print(q)
DivProgram(l, lneg, r, rneg) ==
    <<"q", " ", "=", " ">>
    \o Operand(l, lneg)
    \o <<" ", "/", " ">>
    \o Operand(r, rneg)
    \o <<" ", "p", "r", "i", "n", "t", "(", "q", ")">>

\* The two logical operators.
LogicalOps ==
    {
    \*  and 
    <<" ", "a", "n", "d", " ">>,
    \*  or 
    <<" ", "o", "r", " ">>
    }

\* Right operands of a logical operator: true, false, dividing by zero, reading an unbound name.
RightOperands ==
    {
    \* 1 < 2
    <<"1", " ", "<", " ", "2">>,
    \* 2 < 1
    <<"2", " ", "<", " ", "1">>,
    \* 1 / 0 == 0
    <<"1", " ", "/", " ", "0", " ", "=", "=", " ", "0">>,
    \* z == 0
    <<"z", " ", "=", "=", " ", "0">>
    }

\* if a < 2 op right then print(1) end print(2)
LogicalProgram(a, op, right) ==
    <<"i", "f", " ">>
    \o to_string(a)
    \o <<" ", "<", " ", "2">>
    \o op
    \o right
    \o <<" ", "t", "h", "e", "n", " ", "p", "r", "i", "n", "t", "(", "1", ")", " ", "e", "n", "d", " ", "p", "r", "i", "n", "t", "(", "2", ")">>

\* The two outcomes of a comparison: 1 < 2 is true, 2 < 1 is false.
Truths == {<<"1", " ", "<", " ", "2">>, <<"2", " ", "<", " ", "1">>}

\* if c1 op1 c2 op2 c3 then print(1) end print(2)
CondProgram(c1, op1, c2, op2, c3) ==
    <<"i", "f", " ">> \o c1 \o op1 \o c2 \o op2 \o c3
    \o <<" ", "t", "h", "e", "n", " ", "p", "r", "i", "n", "t", "(", "1", ")", " ", "e", "n", "d">>
    \o <<" ", "p", "r", "i", "n", "t", "(", "2", ")">>

\* The operands and the operators of the arithmetic texts.
ArithOperands == {1, 2, 7}

ArithOps == {"+", "-", "*", "/"}

\* a op b
Infix(a, op, b) == a \o <<" ", op, " ">> \o b

Parenthesised(e) == <<"(">> \o e \o <<")">>

\* print(e)
PrintProgram(e) == <<"p", "r", "i", "n", "t">> \o Parenthesised(e)

\* print(a op1 b op2 c)
ArithProgram(a, op1, b, op2, c) ==
    PrintProgram(Infix(Infix(to_string(a), op1, to_string(b)), op2, to_string(c)))

\* print((a op1 b) op2 c)
ParenLeftProgram(a, op1, b, op2, c) ==
    PrintProgram(Infix(Parenthesised(Infix(to_string(a), op1, to_string(b))), op2,
                       to_string(c)))

\* print(a op1 (b op2 c))
ParenRightProgram(a, op1, b, op2, c) ==
    PrintProgram(Infix(to_string(a), op1,
                       Parenthesised(Infix(to_string(b), op2, to_string(c)))))

\* Well-formed statements that precede an error.
GoodPrefixes ==
    {
    \* (nothing)
    <<>>,
    \* print(1) 
    <<"p", "r", "i", "n", "t", "(", "1", ")", " ">>,
    \* x = 5 
    <<"x", " ", "=", " ", "5", " ">>,
    \* x = 5 print(x, 2)\n
    <<"x", " ", "=", " ", "5", " ", "p", "r", "i", "n", "t", "(", "x", ",", " ", "2", ")",
      "\n">>
    }

\* Texts with a lex or syntax error.
BadTails ==
    {
    \* x = 
    <<"x", " ", "=", " ">>,
    \* print(2 $
    <<"p", "r", "i", "n", "t", "(", "2", " ", "$">>,
    \* $
    <<"$">>,
    \* y = 1 !
    <<"y", " ", "=", " ", "1", " ", "!">>,
    \* if 1 then end
    <<"i", "f", " ", "1", " ", "t", "h", "e", "n", " ", "e", "n", "d">>,
    \* print(
    <<"p", "r", "i", "n", "t", "(">>,
    \* end
    <<"e", "n", "d">>,
    \* for i = 1 to
    <<"f", "o", "r", " ", "i", " ", "=", " ", "1", " ", "t", "o">>,
    \* y = 3 ! z
    <<"y", " ", "=", " ", "3", " ", "!", " ", "z">>,
    \* while 1 < 2 then print(3)
    <<"w", "h", "i", "l", "e", " ", "1", " ", "<", " ", "2", " ", "t", "h", "e", "n", " ", "p",
      "r", "i", "n", "t", "(", "3", ")">>,
    \* 7
    <<"7">>,
    \* y = 99999999999
    <<"y", " ", "=", " ", "9", "9", "9", "9", "9", "9", "9", "9", "9", "9", "9">>,
    \* y = 1 print(y) y = (2
    <<"y", " ", "=", " ", "1", " ", "p", "r", "i", "n", "t", "(", "y", ")", " ", "y", " ", "=",
      " ", "(", "2">>,
    \* print(3) @
    <<"p", "r", "i", "n", "t", "(", "3", ")", " ", "@">>
    }

\* Fixed texts.
FixedPrograms ==
    {
    \* (nothing)
    <<>>,
    \*  \n	
    <<" ", "\n", "\t">>,
    \* x = 2\ny = 3\nprint(x + y * 2)
    <<"x", " ", "=", " ", "2", "\n", "y", " ", "=", " ", "3", "\n", "p", "r", "i", "n", "t",
      "(", "x", " ", "+", " ", "y", " ", "*", " ", "2", ")">>,
    \* if 1 > 2 then print(1) end
    <<"i", "f", " ", "1", " ", ">", " ", "2", " ", "t", "h", "e", "n", " ", "p", "r", "i", "n",
      "t", "(", "1", ")", " ", "e", "n", "d">>,
    \* print(z)
    <<"p", "r", "i", "n", "t", "(", "z", ")">>,
    \* print(1, z)
    <<"p", "r", "i", "n", "t", "(", "1", ",", " ", "z", ")">>,
    \* print(1, 2, 3)
    <<"p", "r", "i", "n", "t", "(", "1", ",", " ", "2", ",", " ", "3", ")">>,
    \* x = 7 print(x)
    <<"x", " ", "=", " ", "7", " ", "p", "r", "i", "n", "t", "(", "x", ")">>,
    \* x = 2 print(x, x + 1, 1 / 0)
    <<"x", " ", "=", " ", "2", " ", "p", "r", "i", "n", "t", "(", "x", ",", " ", "x", " ", "+",
      " ", "1", ",", " ", "1", " ", "/", " ", "0", ")">>,
    \* for i = 1 to 2 for j = i to 2 print(i, j) end end print(i, j)
    <<"f", "o", "r", " ", "i", " ", "=", " ", "1", " ", "t", "o", " ", "2", " ", "f", "o", "r",
      " ", "j", " ", "=", " ", "i", " ", "t", "o", " ", "2", " ", "p", "r", "i", "n", "t", "(",
      "i", ",", " ", "j", ")", " ", "e", "n", "d", " ", "e", "n", "d", " ", "p", "r", "i", "n",
      "t", "(", "i", ",", " ", "j", ")">>,
    \* x = 1 / 0 + z
    <<"x", " ", "=", " ", "1", " ", "/", " ", "0", " ", "+", " ", "z">>,
    \* x = z + 1 / 0
    <<"x", " ", "=", " ", "z", " ", "+", " ", "1", " ", "/", " ", "0">>,
    \* x = 5 x = 1 / 0 print(x)
    <<"x", " ", "=", " ", "5", " ", "x", " ", "=", " ", "1", " ", "/", " ", "0", " ", "p", "r",
      "i", "n", "t", "(", "x", ")">>,
    \* x = 5 x = z print(x)
    <<"x", " ", "=", " ", "5", " ", "x", " ", "=", " ", "z", " ", "p", "r", "i", "n", "t", "(",
      "x", ")">>,
    \* print((0 - 7) / 2)
    <<"p", "r", "i", "n", "t", "(", "(", "0", " ", "-", " ", "7", ")", " ", "/", " ", "2", ")">>,
    \* print(7 / (0 - 2), 0 - 7 / 2)
    <<"p", "r", "i", "n", "t", "(", "7", " ", "/", " ", "(", "0", " ", "-", " ", "2", ")", ",",
      " ", "0", " ", "-", " ", "7", " ", "/", " ", "2", ")">>,
    \* for i = 1 to 3 i = 10 end print(i)
    <<"f", "o", "r", " ", "i", " ", "=", " ", "1", " ", "t", "o", " ", "3", " ", "i", " ", "=",
      " ", "1", "0", " ", "e", "n", "d", " ", "p", "r", "i", "n", "t", "(", "i", ")">>,
    \* for i = 1 to 3 print(i) end print(i)
    <<"f", "o", "r", " ", "i", " ", "=", " ", "1", " ", "t", "o", " ", "3", " ", "p", "r", "i",
      "n", "t", "(", "i", ")", " ", "e", "n", "d", " ", "p", "r", "i", "n", "t", "(", "i", ")">>,
    \* for i = 5 to 1 print(i) end
    <<"f", "o", "r", " ", "i", " ", "=", " ", "5", " ", "t", "o", " ", "1", " ", "p", "r", "i",
      "n", "t", "(", "i", ")", " ", "e", "n", "d">>,
    \* n = 1\nwhile n <= 3 then print(n) n = n + 1 end
    <<"n", " ", "=", " ", "1", "\n", "w", "h", "i", "l", "e", " ", "n", " ", "<", "=", " ",
      "3", " ", "t", "h", "e", "n", " ", "p", "r", "i", "n", "t", "(", "n", ")", " ", "n", " ",
      "=", " ", "n", " ", "+", " ", "1", " ", "e", "n", "d">>,
    \* while 1 > 2 then print(1) end print(0)
    <<"w", "h", "i", "l", "e", " ", "1", " ", ">", " ", "2", " ", "t", "h", "e", "n", " ", "p",
      "r", "i", "n", "t", "(", "1", ")", " ", "e", "n", "d", " ", "p", "r", "i", "n", "t", "(",
      "0", ")">>,
    \* if 1 < 2 or 1 < 2 and 2 < 1 then print(1) end
    <<"i", "f", " ", "1", " ", "<", " ", "2", " ", "o", "r", " ", "1", " ", "<", " ", "2", " ",
      "a", "n", "d", " ", "2", " ", "<", " ", "1", " ", "t", "h", "e", "n", " ", "p", "r", "i",
      "n", "t", "(", "1", ")", " ", "e", "n", "d">>,
    \* if 2 < 1 and 1 < 2 or 1 < 2 then print(1) end
    <<"i", "f", " ", "2", " ", "<", " ", "1", " ", "a", "n", "d", " ", "1", " ", "<", " ", "2",
      " ", "o", "r", " ", "1", " ", "<", " ", "2", " ", "t", "h", "e", "n", " ", "p", "r", "i",
      "n", "t", "(", "1", ")", " ", "e", "n", "d">>,
    \* if 1 > 2 and 1 / 0 == 0 then print(1) end print(2)
    <<"i", "f", " ", "1", " ", ">", " ", "2", " ", "a", "n", "d", " ", "1", " ", "/", " ", "0",
      " ", "=", "=", " ", "0", " ", "t", "h", "e", "n", " ", "p", "r", "i", "n", "t", "(", "1",
      ")", " ", "e", "n", "d", " ", "p", "r", "i", "n", "t", "(", "2", ")">>,
    \* if 1 < 2 or 1 / 0 == 0 then print(1) end
    <<"i", "f", " ", "1", " ", "<", " ", "2", " ", "o", "r", " ", "1", " ", "/", " ", "0", " ",
      "=", "=", " ", "0", " ", "t", "h", "e", "n", " ", "p", "r", "i", "n", "t", "(", "1", ")",
      " ", "e", "n", "d">>,
    \* x = 0 if x == 0 then x = x + 1 if x >= 1 then print(x) end end
    <<"x", " ", "=", " ", "0", " ", "i", "f", " ", "x", " ", "=", "=", " ", "0", " ", "t", "h",
      "e", "n", " ", "x", " ", "=", " ", "x", " ", "+", " ", "1", " ", "i", "f", " ", "x", " ",
      ">", "=", " ", "1", " ", "t", "h", "e", "n", " ", "p", "r", "i", "n", "t", "(", "x", ")",
      " ", "e", "n", "d", " ", "e", "n", "d">>,
    \* n = 2 while n != 0 then for i = n to 2 print(n, i) end n = n - 1 end
    <<"n", " ", "=", " ", "2", " ", "w", "h", "i", "l", "e", " ", "n", " ", "!", "=", " ", "0",
      " ", "t", "h", "e", "n", " ", "f", "o", "r", " ", "i", " ", "=", " ", "n", " ", "t", "o",
      " ", "2", " ", "p", "r", "i", "n", "t", "(", "n", ",", " ", "i", ")", " ", "e", "n", "d",
      " ", "n", " ", "=", " ", "n", " ", "-", " ", "1", " ", "e", "n", "d">>,
    \* k = 3 for i = 1 to k k = k - 1 print(i, k) end
    <<"k", " ", "=", " ", "3", " ", "f", "o", "r", " ", "i", " ", "=", " ", "1", " ", "t", "o",
      " ", "k", " ", "k", " ", "=", " ", "k", " ", "-", " ", "1", " ", "p", "r", "i", "n", "t",
      "(", "i", ",", " ", "k", ")", " ", "e", "n", "d">>,
    \* a_1 = 012 print(a_1 * 2 - 8 / 3)
    <<"a", "_", "1", " ", "=", " ", "0", "1", "2", " ", "p", "r", "i", "n", "t", "(", "a", "_",
      "1", " ", "*", " ", "2", " ", "-", " ", "8", " ", "/", " ", "3", ")">>,
    \* x = 10 - 2 - 3 print(x, 8 / 2 / 2, (1 + 2) * 3)
    <<"x", " ", "=", " ", "1", "0", " ", "-", " ", "2", " ", "-", " ", "3", " ", "p", "r", "i",
      "n", "t", "(", "x", ",", " ", "8", " ", "/", " ", "2", " ", "/", " ", "2", ",", " ", "(",
      "1", " ", "+", " ", "2", ")", " ", "*", " ", "3", ")">>,
    \* for i = z to 2 print(i) end
    <<"f", "o", "r", " ", "i", " ", "=", " ", "z", " ", "t", "o", " ", "2", " ", "p", "r", "i",
      "n", "t", "(", "i", ")", " ", "e", "n", "d">>,
    \* for i = 1 to 1 / 0 print(i) end
    <<"f", "o", "r", " ", "i", " ", "=", " ", "1", " ", "t", "o", " ", "1", " ", "/", " ", "0",
      " ", "p", "r", "i", "n", "t", "(", "i", ")", " ", "e", "n", "d">>,
    \* for i = 2 to 3 print(i / (3 - i)) end
    <<"f", "o", "r", " ", "i", " ", "=", " ", "2", " ", "t", "o", " ", "3", " ", "p", "r", "i",
      "n", "t", "(", "i", " ", "/", " ", "(", "3", " ", "-", " ", "i", ")", ")", " ", "e", "n",
      "d">>,
    \* for i = 1 to 3 print(2 / (2 - i)) end print(i)
    <<"f", "o", "r", " ", "i", " ", "=", " ", "1", " ", "t", "o", " ", "3", " ", "p", "r", "i",
      "n", "t", "(", "2", " ", "/", " ", "(", "2", " ", "-", " ", "i", ")", ")", " ", "e", "n",
      "d", " ", "p", "r", "i", "n", "t", "(", "i", ")">>,
    \* if 1 < 2 < 3 then print(1) end
    <<"i", "f", " ", "1", " ", "<", " ", "2", " ", "<", " ", "3", " ", "t", "h", "e", "n", " ",
      "p", "r", "i", "n", "t", "(", "1", ")", " ", "e", "n", "d">>,
    \* if (1 < 2) and 2 < 3 then print(1) end
    <<"i", "f", " ", "(", "1", " ", "<", " ", "2", ")", " ", "a", "n", "d", " ", "2", " ", "<",
      " ", "3", " ", "t", "h", "e", "n", " ", "p", "r", "i", "n", "t", "(", "1", ")", " ", "e",
      "n", "d">>,
    \* if 1 < 2 and 3 then print(1) end
    <<"i", "f", " ", "1", " ", "<", " ", "2", " ", "a", "n", "d", " ", "3", " ", "t", "h", "e",
      "n", " ", "p", "r", "i", "n", "t", "(", "1", ")", " ", "e", "n", "d">>
    }

Programs ==
    FixedPrograms
    \cup {ForProgram(pre, s, e, body) : pre \in ForPreludes, s \in Vals, e \in Vals, body \in ForBodies}
    \cup {WhileProgram(a, b) : a \in Vals, b \in Vals}
    \cup {DivProgram(l, lneg, r, rneg) : l \in Vals, lneg \in BOOLEAN, r \in Vals, rneg \in BOOLEAN}
    \cup {LogicalProgram(a, op, right) : a \in Vals, op \in LogicalOps, right \in RightOperands}
    \cup {ArithProgram(a, op1, b, op2, c) :
                a \in ArithOperands, op1 \in ArithOps, b \in ArithOperands, op2 \in ArithOps,
                c \in ArithOperands}
    \cup {ParenLeftProgram(7, op1, 2, op2, 1) : op1 \in ArithOps, op2 \in ArithOps}
    \cup {ParenRightProgram(7, op1, 2, op2, 1) : op1 \in ArithOps, op2 \in ArithOps}
    \cup {CondProgram(c1, op1, c2, op2, c3) :
                c1 \in Truths, op1 \in LogicalOps, c2 \in Truths, op2 \in LogicalOps, c3 \in Truths}
    \cup {good \o bad : good \in GoodPrefixes, bad \in BadTails}

(***************************************************************************)
(* main: construct the lexer, the table, the parser and the interpreter,   *)
(* then parse one statement and run it, until the token is EOF_TOKEN or an *)
(* exception reaches the catch.                                            *)
(***************************************************************************)
NoToken == [type |-> "NONE", value |-> <<>>]

NoCall == [op |-> "none", name |-> <<>>, type |-> "", value |-> <<>>]

NoRet == [threw |-> "none", entry |-> <<>>]

Init ==
    /\ text \in Programs
    /\ pos = 0
    /\ current_token = NoToken
    /\ symbolTable = EmptyTable
    /\ lastValue = <<>>
    /\ out = <<>>
    /\ stack = <<>>
    /\ ast = NoNode
    /\ pc = "init"
    /\ err = "none"
    /\ call = NoCall
    /\ ret = NoRet

\* Parser::Parser reads the first token.
ParserInit ==
    /\ pc = "init"
    /\ UNCHANGED <<text, symbolTable, lastValue, out, ast, call, ret>>
    /\ \E t \in {get_next_token(pos)} :
        IF t.err # "none"
        THEN Raise(t.err) /\ UNCHANGED <<pos, current_token>>
        ELSE /\ pos' = t.pos
             /\ current_token' = [type |-> t.type, value |-> t.value]
             /\ pc' = "loop"
             /\ UNCHANGED <<stack, err>>

RECURSIVE parse_rest(_)

\* The parser taken from r to the end of the text: where it fails, or EOF_TOKEN.
parse_rest(r) ==
    IF Failed(r) \/ r.tok.type = "EOF_TOKEN" THEN r ELSE parse_rest(statement(r))

\* A main that parses the text to its end before it runs the first statement,
\* and so fails with no statement run when any statement of the text fails to parse.
MainStatementWholeText ==
    /\ pc = "loop"
    /\ current_token.type # "EOF_TOKEN"
    /\ UNCHANGED <<text, symbolTable, lastValue, out, call, ret>>
    /\ \E r \in {statement(ParserState(pos, current_token))} :
        \E w \in {parse_rest(r)} :
            IF Failed(w)
            THEN Raise(w.err) /\ UNCHANGED <<pos, current_token, ast>>
            ELSE /\ pos' = r.pos
                 /\ current_token' = r.tok
                 /\ ast' = r.node
                 /\ pc' = "accept"
                 /\ UNCHANGED <<stack, err>>

\* auto ast = parser.statement();
MainStatement ==
    /\ pc = "loop"
    /\ current_token.type # "EOF_TOKEN"
    /\ UNCHANGED <<text, symbolTable, lastValue, out, call, ret>>
    /\ \E r \in {statement(ParserState(pos, current_token))} :
        IF Failed(r)
        THEN Raise(r.err) /\ UNCHANGED <<pos, current_token, ast>>
        ELSE /\ pos' = r.pos
             /\ current_token' = r.tok
             /\ ast' = r.node
             /\ pc' = "accept"
             /\ UNCHANGED <<stack, err>>

\* ast->accept(interpreter);
MainAccept ==
    /\ pc = "accept"
    /\ stack' = <<Frame(ast)>>
    /\ pc' = "run"
    /\ UNCHANGED <<text, pos, current_token, symbolTable, lastValue, out, ast, err, call, ret>>

\* The loop ends at EOF_TOKEN: return 0.
MainReturn ==
    /\ pc = "loop"
    /\ current_token.type = "EOF_TOKEN"
    /\ pc' = "done"
    /\ UNCHANGED <<text, pos, current_token, symbolTable, lastValue, out, stack, ast, err, call, ret>>

Next ==
    \/ ParserInit
    \/ MainStatement
    \/ MainAccept
    \/ MainReturn
    \/ VisitBinaryOp
    \/ VisitNumber
    \/ VisitVariable
    \/ VisitAssign
    \/ VisitPrint
    \/ VisitComparison
    \/ VisitLogicalOp
    \/ VisitIf
    \/ VisitWhile
    \/ VisitFor

Spec == Init /\ [][Next]_vars

(***************************************************************************)
(* The SymbolTable on its own: a driver makes every call of addOrUpdate    *)
(* and get on a table, with names, type tags and values of small sets,     *)
(* and keeps the call and what it returned or threw.                       *)
(***************************************************************************)
TableNames == {<<"a">>, <<"b">>}

TableTypes == {"INTEGER", "BOOLEAN"}

TableValues == {<<"0">>, <<"1">>, <<"-", "1">>}

TableInit ==
    /\ text = <<>>
    /\ pos = 0
    /\ current_token = NoToken
    /\ symbolTable = EmptyTable
    /\ lastValue = <<>>
    /\ out = <<>>
    /\ stack = <<>>
    /\ ast = NoNode
    /\ pc = "table"
    /\ err = "none"
    /\ call = NoCall
    /\ ret = NoRet

TableAddOrUpdate ==
    /\ pc = "table"
    /\ \E name \in TableNames, type \in TableTypes, value \in TableValues :
        /\ call' = [op |-> "addOrUpdate", name |-> name, type |-> type, value |-> value]
        /\ ret' = [threw |-> IF addOrUpdateThrows(symbolTable, name, type)
                             THEN "Type mismatch" ELSE "none",
                   entry |-> <<>>]
        /\ symbolTable' = addOrUpdate(symbolTable, name, type, value)
    /\ UNCHANGED <<text, pos, current_token, lastValue, out, stack, ast, pc, err>>

TableGet ==
    /\ pc = "table"
    /\ \E name \in TableNames :
        /\ call' = [op |-> "get", name |-> name, type |-> "", value |-> <<>>]
        /\ ret' = [threw |-> "none", entry |-> get(symbolTable, name)]
    /\ UNCHANGED <<text, pos, current_token, symbolTable, lastValue, out, stack, ast, pc, err>>

TableNext == TableAddOrUpdate \/ TableGet

TableSpec == TableInit /\ [][TableNext]_vars

(***************************************************************************)
(* The Lexer on its own: a driver calls get_next_token again and again on  *)
(* a text, as the parser does, until the call throws; current_token is the *)
(* token returned last.  The texts are all those of up to MaxLen           *)
(* characters of LexChars, the fixed programs and the erroneous texts.     *)
(***************************************************************************)
MaxLen == 3

\* One character of each kind the lexer tells apart, '\0' among them.
LexChars == {"1", "a", "_", " ", "=", "!", "<", "*", "$", NUL}

LexTexts ==
    UNION {[1 .. n -> LexChars] : n \in 0 .. MaxLen} \cup FixedPrograms \cup BadTails

LexInit ==
    /\ text \in LexTexts
    /\ pos = 0
    /\ current_token = NoToken
    /\ symbolTable = EmptyTable
    /\ lastValue = <<>>
    /\ out = <<>>
    /\ stack = <<>>
    /\ ast = NoNode
    /\ pc = "lex"
    /\ err = "none"
    /\ call = NoCall
    /\ ret = NoRet

\* current_token = lexer.get_next_token();
LexCall ==
    /\ pc = "lex"
    /\ UNCHANGED <<text, symbolTable, lastValue, out, ast, call, ret>>
    /\ \E t \in {get_next_token(pos)} :
        /\ pos' = t.pos
        /\ IF t.err # "none"
           THEN Raise(t.err) /\ UNCHANGED current_token
           ELSE /\ current_token' = [type |-> t.type, value |-> t.value]
                /\ UNCHANGED <<stack, pc, err>>

LexNext == LexCall

\* The driver goes on calling as long as a call changes anything.
LexSpec == LexInit /\ [][LexNext]_vars /\ WF_vars(LexNext)

(***************************************************************************)
(* What the properties below speak of.                                     *)
(***************************************************************************)
\* The errors of the lexer and of the parser; the others are the interpreter's.
LexErrors == {"Invalid character", "Invalid operator", "stoi"}

SyntaxErrors ==
    {"Unexpected token", "Syntax error in factor", "Invalid comparison operator",
     "Invalid statement"}

ParseFailed(e) == e \in LexErrors \cup SyntaxErrors

Finished == pc \in {"done", "error"}

\* The line print writes for one value.
Line(n) == to_string(n) \o <<"\n">>

RECURSIVE Lines(_, _)

\* The lines of a, a + 1, ..., b.
Lines(a, b) == IF a > b THEN <<>> ELSE Line(a) \o Lines(a + 1, b)

Bound(name) == name \in DOMAIN symbolTable

\* name is bound to the integer n.
Holds(name, n) == Bound(name) /\ symbolTable[name] = Entry("INTEGER", to_string(n))

(***************************************************************************)
(* C1.  Parsing and evaluation.                                            *)
(***************************************************************************)
\* What the well-formed statements of GoodPrefixes write and bind when run.
PrefixOutput(good) ==
    \* print(1) 
    CASE good = <<"p", "r", "i", "n", "t", "(", "1", ")", " ">> -> Line(1)
      \* x = 5 print(x, 2)\n
      [] good = <<"x", " ", "=", " ", "5", " ", "p", "r", "i", "n", "t", "(", "x", ",", " ", "2",
              ")", "\n">> -> <<"5", " ", "2", "\n">>
      [] OTHER -> <<>>

PrefixNames(good) ==
    \* x = 5 print(x, 2)\n
    IF good \in {<<"x", " ", "=", " ", "5", " ">>, <<"x", " ", "=", " ", "5", " ", "p", "r", "i",
            "n", "t", "(", "x", ",", " ", "2", ")", "\n">>} THEN {<<"x">>} ELSE {}

\* The texts of BadTails whose first statement is the one that does not parse and
\* starts with a token: the statements of the prefix are parsed before it.
\* y = 1 print(y) y = (2
FailingFirst == BadTails \ {<<"$">>, <<"y", " ", "=", " ", "1", " ", "p", "r", "i", "n", "t", "(",
        "y", ")", " ", "y", " ", "=", " ", "(", "2">>}

\* C1 as stated: the whole text is lexed and parsed before any statement is
\* evaluated, so a run that fails with a lex or syntax error has written no output
\* and bound no name, whatever precedes the error.
C1_WholeTextParsedFirst ==
    (pc = "error" /\ ParseFailed(err)) => (out = <<>> /\ DOMAIN symbolTable = {})

\* A step of main: lexing and parsing never write or bind, a lex or syntax error is
\* raised only between two top-level statements, with no visit active, and while
\* a statement is evaluated the lexer and the parser stand still.
C1_Step ==
    /\ (err = "none" /\ ParseFailed(err')) =>
            /\ pc \in {"init", "loop"}
            /\ stack = <<>>
            /\ out' = out
            /\ symbolTable' = symbolTable
    /\ pc \in {"init", "loop"} => (out' = out /\ symbolTable' = symbolTable)
    /\ pc \in {"accept", "run"} =>
            (pos' = pos /\ current_token' = current_token /\ ast' = ast)

\* The statements before the one that fails to parse have been run by then.
C1_Runs ==
    /\ \A good \in GoodPrefixes : \A bad \in FailingFirst :
        (text = good \o bad /\ Finished) =>
            /\ pc = "error"
            /\ ParseFailed(err)
            /\ out = PrefixOutput(good)
            /\ DOMAIN symbolTable = PrefixNames(good)
    /\ \A good \in GoodPrefixes :
        \* y = 1 print(y) y = (2
        (text = good \o <<"y", " ", "=", " ", "1", " ", "p", "r", "i", "n", "t", "(", "y", ")",
                " ", "y", " ", "=", " ", "(", "2">> /\ Finished) =>
            /\ err = "Unexpected token"
            /\ out = PrefixOutput(good) \o Line(1)
            /\ DOMAIN symbolTable = PrefixNames(good) \cup {<<"y">>}
    \* a statement is run once the token after it is read: the print is not run
    \* x = 5 print(x, 2)\n$
    /\ (text = <<"x", " ", "=", " ", "5", " ", "p", "r", "i", "n", "t", "(", "x", ",", " ", "2",
            ")", "\n", "$">> /\ Finished) =>
            /\ err = "Invalid character"
            /\ out = <<>>
            /\ Holds(<<"x">>, 5)

\* C1, amended: the text is lexed and parsed one top-level statement at a time,
\* each statement and the token after it before that statement is evaluated; a lex
\* or syntax error ends the run before the statement it is in and every later one
\* runs, and the output and the bindings of the statements before it remain.
C1_StatementParsedFirst == []C1_Runs /\ [][C1_Step]_vars

\* A syntax error after statements that wrote and bound.
C1_Witness ==
    \* x = 5 print(x, 2)\n
    /\ text = <<"x", " ", "=", " ", "5", " ", "p", "r", "i", "n", "t", "(", "x", ",", " ", "2",
            ")", "\n">> \o <<"x", " ", "=", " ">>
    /\ pc = "error"
    /\ err = "Syntax error in factor"
    /\ out = <<"5", " ", "2", "\n">>
    /\ Holds(<<"x">>, 5)

(***************************************************************************)
(* C2, C3, C4.  The for loop.                                              *)
(***************************************************************************)
RECURSIVE Assigns(_, _)

\* Whether the statement node holds an assignment to name, a for loop over name included.
Assigns(node, name) ==
    CASE node.kind = "Assign" -> node.name = name
      [] node.kind = "For" ->
            \/ node.var_name = name
            \/ \E k \in 1 .. Len(node.body) : Assigns(node.body[k], name)
      [] node.kind \in {"If", "While"} ->
            \E k \in 1 .. Len(node.body) : Assigns(node.body[k], name)
      [] OTHER -> FALSE

BodyAssigns(node, name) == \E k \in 1 .. Len(node.body) : Assigns(node.body[k], name)

\* The visit on top is a for loop's, standing at p.
ForAt(p) == Visiting("For") /\ Top.pc = p

HoldsIn(table, name, n) ==
    name \in DOMAIN table /\ table[name] = Entry("INTEGER", to_string(n))

\* The step keeps the visit on top and takes it into the body.
ForEnters == Len(stack') = Len(stack) /\ stack'[Len(stack)].pc = "body"

\* The step pushes the visit of node on the visit that was on top.
Pushes(node) == Len(stack') = Len(stack) + 1 /\ stack'[Len(stack')] = Frame(node)

RECURSIVE Repeat(_, _)

Repeat(s, n) == IF n <= 0 THEN <<>> ELSE s \o Repeat(s, n - 1)

NoPrelude == <<>>

\* The bodies of ForBodies by what they do.
BodyEmpty == <<>>

\* print(i) 
BodyPrints == <<"p", "r", "i", "n", "t", "(", "i", ")", " ">>

\* i = 9 print(i) 
BodyAssignsVar == <<"i", " ", "=", " ", "9", " ", "p", "r", "i", "n", "t", "(", "i", ")", " ">>

\* print(i) n = 0 
BodyAssignsEnd == <<"p", "r", "i", "n", "t", "(", "i", ")", " ", "n", " ", "=", " ", "0", " ">>

\* C2 as stated: after a for loop whose body does not assign the loop variable, the
\* variable is bound to one past the last iterated value: e + 1 when s <= e, and s
\* when s > e.
C2_OnePastLast ==
    \A pre \in ForPreludes : \A s, e \in Vals :
        \A body \in {BodyEmpty, BodyPrints, BodyAssignsEnd} :
            (text = ForProgram(pre, s, e, body) /\ Finished) =>
                Holds(<<"i">>, IF s <= e THEN e + 1 ELSE s)

\* After the loop of ForProgram, its body not assigning i: i holds e when s <= e;
\* when s > e it is as before the loop, unbound (the print after the loop fails
\* with UndefinedVariable) or still bound to 7.
C2_Final ==
    \A pre \in ForPreludes : \A s, e \in Vals :
        \A body \in {BodyEmpty, BodyPrints, BodyAssignsEnd} :
            (text = ForProgram(pre, s, e, body) /\ Finished) =>
                IF s <= e
                THEN pc = "done" /\ Holds(<<"i">>, e)
                ELSE IF pre = NoPrelude
                THEN err = "Undefined variable" /\ ~Bound(<<"i">>) /\ out = <<>>
                ELSE pc = "done" /\ Holds(<<"i">>, 7) /\ out = Line(7)

\* The loop binds its variable when it enters the body, to the value of the
\* iteration, and at no other point: not while the bounds are evaluated, not with
\* the increment, not when it leaves.
C2_Step ==
    /\ (ForAt("test") /\ Top.i <= Top.end) =>
            HoldsIn(symbolTable', Top.node.var_name, Top.i)
    /\ (ForAt("test") /\ Top.i > Top.end) => symbolTable' = symbolTable
    /\ (Visiting("For") /\ Top.pc # "test") => symbolTable' = symbolTable

\* C2, amended: after a for loop with s <= e whose body does not assign the loop
\* variable, the variable is bound to the last iterated value e (for i = 1 to 3
\* leaves i = 3); a loop with s > e neither binds nor changes the variable.
C2_LastIterated == []C2_Final /\ [][C2_Step]_vars

\* for i = 1 to 3 has finished and i is 3.
C2_Witness ==
    /\ text = ForProgram(NoPrelude, 1, 3, BodyEmpty)
    /\ pc = "done"
    /\ Holds(<<"i">>, 3)
    /\ out = Line(3)

\* C3 as stated: after the first iteration the loop goes on exactly when the value
\* of the loop variable in the symbol table, plus one, is at most the end value,
\* and that incremented value is what the variable is then bound to.
C3_TableDrivesLoop ==
    [][(ForAt("test") /\ Top.i > Top.start) =>
            LET cur == stoi(symbolTable[Top.node.var_name].value) + 1
            IN  /\ ForEnters <=> cur <= Top.end
                /\ ForEnters => HoldsIn(symbolTable', Top.node.var_name, cur)]_vars

\* The test and the increment are on the counter i of the visit: the loop goes on
\* exactly when i <= end and then binds the variable to i, the increment adds one
\* to i and leaves the symbol table alone, and no statement of the body changes i.
C3_Step ==
    /\ ForAt("test") =>
            /\ ForEnters <=> Top.i <= Top.end
            /\ ForEnters =>
                    /\ HoldsIn(symbolTable', Top.node.var_name, Top.i)
                    /\ stack'[Len(stack)].i = Top.i
    /\ (ForAt("body") /\ Len(stack') = Len(stack)) =>
            /\ stack'[Len(stack)].i = Top.i + 1
            /\ stack'[Len(stack)].pc = "test"
            /\ symbolTable' = symbolTable
    /\ \A k \in 1 .. Len(stack) - 1 :
            (stack[k].node.kind = "For" /\ k <= Len(stack')) => stack'[k].i = stack[k].i

\* A body that assigns the loop variable runs once for each of s .. e all the same,
\* and the variable keeps the value of the body's last assignment.
C3_Final ==
    /\ \A pre \in ForPreludes : \A s, e \in Vals :
        (text = ForProgram(pre, s, e, BodyAssignsVar) /\ Finished /\ s <= e) =>
            /\ pc = "done"
            /\ out = Repeat(Line(9), e - s + 1) \o Line(9)
            /\ Holds(<<"i">>, 9)
    \* for i = 1 to 3  ++ i = 10 end print(i)
    /\ (text = <<"f", "o", "r", " ", "i", " ", "=", " ", "1", " ", "t", "o", " ", "3",
            " ">> \o <<"i", " ", "=", " ", "1", "0", " ", "e", "n", "d", " ", "p", "r", "i", "n",
            "t", "(", "i", ")">> /\ Finished) =>
            /\ pc = "done"
            /\ out = Line(10)
            /\ Holds(<<"i">>, 10)

\* C3, amended: the continuation test and the increment operate on a counter of
\* the loop itself, which starts at the start value; each iteration binds the loop
\* variable to the counter before the body runs, so an assignment to the variable
\* in the body changes neither the number of iterations nor the next value bound
\* (for i = 1 to 3 with body i = 10 runs the body three times and leaves i = 10).
C3_CounterDrivesLoop == []C3_Final /\ [][C3_Step]_vars

\* The test of the second iteration of a loop to 3 whose body has set i to 9.
C3_Witness ==
    /\ ForAt("test")
    /\ Top.i = 2
    /\ Top.end = 3
    /\ Holds(Top.node.var_name, 9)

\* The bounds are evaluated in order, start and then end, when the visit begins;
\* from the first test on the visit keeps them, evaluates neither expression
\* again, and runs the statements of the body in order.
C4_Step ==
    /\ ForAt("begin") => Pushes(Top.node.start)
    /\ (ForAt("start") /\ HasValue) =>
            /\ Pushes(Top.node.end)
            /\ stack'[Len(stack)].start = lastValue[1]
    /\ (ForAt("end") /\ HasValue) =>
            /\ Len(stack') = Len(stack)
            /\ stack'[Len(stack)] =
                    [Top EXCEPT !.end = lastValue[1], !.i = Top.start, !.pc = "test"]
    /\ \A k \in 1 .. Len(stack) :
            (stack[k].node.kind = "For" /\ stack[k].pc \in {"test", "body"}
                                         /\ k <= Len(stack')) =>
                /\ stack'[k].pc \in {"test", "body"}
                /\ stack'[k].start = stack[k].start
                /\ stack'[k].end = stack[k].end
    /\ (ForAt("body") /\ Len(stack') > Len(stack)) =>
            /\ Top.idx < Len(Top.node.body)
            /\ Pushes(Top.node.body[Top.idx + 1])
            /\ stack'[Len(stack)].idx = Top.idx + 1

\* The counter stays within the bounds, and while the body runs the loop variable
\* reads the counter unless the body assigns it.
C4_Counter ==
    \A k \in 1 .. Len(stack) :
        stack[k].node.kind = "For" =>
            /\ stack[k].pc = "body" =>
                    /\ stack[k].start <= stack[k].i
                    /\ stack[k].i <= stack[k].end
                    /\ ~BodyAssigns(stack[k].node, stack[k].node.var_name) =>
                            Holds(stack[k].node.var_name, stack[k].i)
            /\ stack[k].pc = "test" =>
                    /\ stack[k].start <= stack[k].i
                    /\ stack[k].i = stack[k].start \/ stack[k].i <= stack[k].end + 1

\* The body of ForProgram prints i: it runs for s, s + 1, ..., e in that order and
\* not at all when s > e, also when it sets n, the variable of the end expression.
C4_Final ==
    \A pre \in ForPreludes : \A s, e \in Vals : \A body \in {BodyPrints, BodyAssignsEnd} :
        (text = ForProgram(pre, s, e, body) /\ Finished) =>
            /\ Holds(<<"n">>, IF body = BodyAssignsEnd /\ s <= e THEN 0 ELSE e)
            /\ out = Lines(s, e) \o (IF s <= e THEN Line(e)
                                      ELSE IF pre = NoPrelude THEN <<>> ELSE Line(7))

\* C4: a for loop evaluates its start and then its end expression once each,
\* before the first iteration; what the body assigns to the variables of those
\* expressions does not change the number of iterations, and a body that does not
\* assign the loop variable runs max(0, e - s + 1) times with the variable reading
\* s, s + 1, ..., e in that order.
C4_BoundsEvaluatedOnce == []C4_Counter /\ []C4_Final /\ [][C4_Step]_vars

\* A loop from 1 to n = 3 whose body sets n to 0 has run for 1, 2 and 3.
C4_Witness ==
    /\ text = ForProgram(NoPrelude, 1, 3, BodyAssignsEnd)
    /\ pc = "done"
    /\ out = Lines(1, 3) \o Line(3)
    /\ Holds(<<"n">>, 0)

(***************************************************************************)
(* C5.  print.                                                             *)
(***************************************************************************)
\* The output is made of whole lines.
WholeLines == out = <<>> \/ out[Len(out)] = "\n"

\* C5 as stated: a print statement writes its line as one event, so when one of its
\* expressions fails nothing of the statement has been written: the output of a
\* run that ends in an error is made of whole lines.
C5_PrintAtomic == pc = "error" => WholeLines

(***************************************************************************)
(* C6.  Logical operators.                                                 *)
(***************************************************************************)
\* The step returns from the visit on top.
Returned == stack' = SubSeq(stack, 1, Len(stack) - 1)

LogicalAt(p) == Visiting("LogicalOp") /\ Top.pc = p

\* The visit evaluates the left operand; a left operand that decides the result
\* ends the visit with that result, and otherwise the right operand is evaluated
\* next and the visit ends with the combination of both.
C6_Step ==
    /\ LogicalAt("begin") => Pushes(Top.node.left)
    /\ (LogicalAt("left") /\ HasValue) =>
            IF Top.node.op = "AND" /\ lastValue[1] = 0
            THEN Returned /\ lastValue' = <<0>> /\ err' = "none"
            ELSE IF Top.node.op = "OR" /\ lastValue[1] # 0
            THEN Returned /\ lastValue' = <<1>> /\ err' = "none"
            ELSE /\ Pushes(Top.node.right)
                 /\ stack'[Len(stack)].left = (lastValue[1] # 0)
    /\ (LogicalAt("right") /\ HasValue) =>
            /\ Returned
            /\ lastValue' = <<Bool(IF Top.node.op = "AND"
                                   THEN Top.left /\ lastValue[1] # 0
                                   ELSE Top.left \/ lastValue[1] # 0)>>

And == <<" ", "a", "n", "d", " ">>

\* if a < 2 op right then print(1) end print(2): a left operand that decides the
\* result keeps the error of the right operand from happening.
C6_Final ==
    \A a \in Vals : \A op \in LogicalOps : \A right \in RightOperands :
        (text = LogicalProgram(a, op, right) /\ Finished) =>
            LET left == a < 2
            IN  IF (op = And /\ ~left) \/ (op # And /\ left)
                THEN pc = "done" /\ out = (IF left THEN Line(1) ELSE <<>>) \o Line(2)
                \* 1 / 0 == 0
                ELSE IF right = <<"1", " ", "/", " ", "0", " ", "=", "=", " ", "0">>
                THEN err = "Division by zero" /\ out = <<>>
                ELSE IF right = <<"z", " ", "=", "=", " ", "0">>
                THEN err = "Undefined variable" /\ out = <<>>
                ELSE /\ pc = "done"
                     /\ out = (IF right = <<"1", " ", "<", " ",
                             "2">> THEN Line(1) ELSE <<>>) \o Line(2)

\* C6: logical operators short-circuit.  AND with a false left operand yields
\* false and OR with a true left operand yields true without the right operand
\* being evaluated, so the error it would raise does not occur; otherwise the right
\* operand is evaluated once after the left and the result combines both.
C6_ShortCircuit == []C6_Final /\ [][C6_Step]_vars

\* 2 < 2 and 1 / 0 == 0 has been evaluated to false with no division by zero.
C6_Witness ==
    \* 1 / 0 == 0
    /\ text = LogicalProgram(2, And, <<"1", " ", "/", " ", "0", " ", "=", "=", " ", "0">>)
    /\ pc = "done"
    /\ out = Line(2)

(***************************************************************************)
(* C7.  Errors.                                                            *)
(***************************************************************************)
\* An error ends the run where it is raised, with the output and the symbol table
\* as they are, and nothing happens after it; while the right-hand side of an
\* assignment is evaluated the symbol table is not written.
C7_Step ==
    /\ err' # "none" =>
            /\ pc' = "error"
            /\ stack' = <<>>
            /\ out' = out
            /\ symbolTable' = symbolTable
    /\ err # "none" => UNCHANGED vars
    /\ (\E k \in 1 .. Len(stack) - 1 : stack[k].node.kind = "Assign") =>
            symbolTable' = symbolTable

\* Runs that fail: the statements and the loop iterations after the error have
\* not run, and the target of the failing assignment is as it was.
C7_Final ==
    /\ pc = "error" <=> err # "none"
    \* x = 5 x = 1 / 0 print(x)
    /\ (text = <<"x", " ", "=", " ", "5", " ", "x", " ", "=", " ", "1", " ", "/", " ", "0", " ",
            "p", "r", "i", "n", "t", "(", "x", ")">> /\ Finished) =>
            err = "Division by zero" /\ Holds(<<"x">>, 5) /\ out = <<>>
    \* x = 5 x = z print(x)
    /\ (text = <<"x", " ", "=", " ", "5", " ", "x", " ", "=", " ", "z", " ", "p", "r", "i", "n",
            "t", "(", "x", ")">> /\ Finished) =>
            err = "Undefined variable" /\ Holds(<<"x">>, 5) /\ out = <<>>
    \* x = 1 / 0 + z
    /\ (text = <<"x", " ", "=", " ", "1", " ", "/", " ", "0", " ", "+", " ", "z">> /\ Finished) =>
            err = "Division by zero" /\ ~Bound(<<"x">>) /\ out = <<>>
    \* for i = 1 to 3 print(2 / (2 - i))  ++ end print(i)
    /\ (text = <<"f", "o", "r", " ", "i", " ", "=", " ", "1", " ", "t", "o", " ", "3", " ", "p",
            "r", "i", "n", "t", "(", "2", " ", "/", " ", "(", "2", " ", "-", " ", "i", ")", ")",
            " ">> \o <<"e", "n", "d", " ", "p", "r", "i", "n", "t", "(", "i",
            ")">> /\ Finished) =>
            err = "Division by zero" /\ Holds(<<"i">>, 2) /\ out = Line(2)

\* C7: once an error is raised execution never resumes: no later statement or
\* loop iteration runs, nothing more is written and the symbol table stays as it
\* was when the error was raised; an assignment whose right-hand side fails
\* neither creates nor changes its target.
C7_ErrorsAreFatal == []C7_Final /\ [][C7_Step]_vars

\* The second assignment to x has failed and x is still 5.
C7_Witness ==
    \* x = 5 x = 1 / 0 print(x)
    /\ text = <<"x", " ", "=", " ", "5", " ", "x", " ", "=", " ", "1", " ", "/", " ", "0", " ",
            "p", "r", "i", "n", "t", "(", "x", ")">>
    /\ pc = "error"
    /\ err = "Division by zero"
    /\ Holds(<<"x">>, 5)
    /\ out = <<>>

(***************************************************************************)
(* C8.  The symbol table.                                                  *)
(***************************************************************************)
\* A call of the driver, from the table before it to the table after it.
C8_Step ==
    LET name == call'.name
        stored == Entry(call'.type, call'.value)
    IN  /\ call'.op = "addOrUpdate" =>
            /\ \A n \in DOMAIN symbolTable \ {name} :
                    n \in DOMAIN symbolTable' /\ symbolTable'[n] = symbolTable[n]
            /\ IF name \notin DOMAIN symbolTable
               THEN /\ ret'.threw = "none"
                    /\ DOMAIN symbolTable' = DOMAIN symbolTable \cup {name}
                    /\ symbolTable'[name] = stored
               ELSE IF symbolTable[name].type = call'.type
               THEN /\ ret'.threw = "none"
                    /\ DOMAIN symbolTable' = DOMAIN symbolTable
                    /\ symbolTable'[name] = stored
               ELSE /\ ret'.threw = "Type mismatch"
                    /\ symbolTable' = symbolTable
        /\ call'.op = "get" =>
            /\ ret'.threw = "none"
            /\ symbolTable' = symbolTable
            /\ ret'.entry = IF name \in DOMAIN symbolTable
                            THEN <<symbolTable[name]>> ELSE <<>>

\* C8: addOrUpdate inserts an absent name, overwrites the value of a name stored
\* with the same type, and fails with TypeMismatch on a name stored with another
\* type, leaving the table unchanged; the entries of all other names are unchanged
\* in every case, and get never fails: it returns the entry last stored with
\* success, or nothing for a name never stored.
C8_SymbolTable == [][C8_Step]_vars

\* addOrUpdate has thrown on a name stored with the other type.
C8_Witness ==
    /\ call.op = "addOrUpdate"
    /\ ret.threw = "Type mismatch"
    /\ call.name \in DOMAIN symbolTable
    /\ symbolTable[call.name].type # call.type

(***************************************************************************)
(* C9.  The while loop.                                                    *)
(***************************************************************************)
WhileAt(p) == Visiting("While") /\ Top.pc = p

\* The visit evaluates the condition first; on false it returns, on true it runs
\* the statements of the body in order and then evaluates the condition again.
C9_Step ==
    /\ WhileAt("begin") => Pushes(Top.node.condition)
    /\ (WhileAt("test") /\ HasValue) =>
            IF lastValue[1] = 0 THEN Returned
            ELSE stack' = SetTop([Top EXCEPT !.pc = "body", !.idx = 0])
    /\ WhileAt("body") =>
            IF Top.idx < Len(Top.node.body)
            THEN /\ Pushes(Top.node.body[Top.idx + 1])
                 /\ stack'[Len(stack)] = [Top EXCEPT !.idx = Top.idx + 1]
            ELSE stack' = SetTop([Top EXCEPT !.pc = "begin"])
    /\ Visiting("While") => (symbolTable' = symbolTable /\ out' = out)

\* n = a, then while n <= b then print(n) n = n + 1 end: the lines of a .. b, none
\* when a > b, and n one past the last line.
C9_Final ==
    /\ \A a, b \in Vals :
        (text = WhileProgram(a, b) /\ Finished) =>
            /\ pc = "done"
            /\ out = Lines(a, b)
            /\ Holds(<<"n">>, IF a <= b THEN b + 1 ELSE a)
    \* while 1 > 2 then print(1) end print(0)
    /\ (text = <<"w", "h", "i", "l", "e", " ", "1", " ", ">", " ", "2", " ", "t", "h", "e", "n",
            " ", "p", "r", "i", "n", "t", "(", "1", ")", " ", "e", "n", "d", " ", "p", "r", "i",
            "n", "t", "(", "0", ")">> /\ Finished) => out = Line(0)

\* C9: a while loop evaluates its condition before every iteration, the first
\* included, against the current symbol table; on false it stops without running
\* the body, on true the whole body runs once in order before the condition is
\* evaluated again.  n = 1 and while n <= 3 then print(n) n = n + 1 end write the
\* lines 1, 2, 3 and leave n = 4.
C9_While == []C9_Final /\ [][C9_Step]_vars

C9_Witness ==
    /\ text = WhileProgram(1, 3)
    /\ pc = "done"
    \* 1\n2\n3\n
    /\ out = <<"1", "\n", "2", "\n", "3", "\n">>
    /\ Holds(<<"n">>, 4)

(***************************************************************************)
(* C10.  Binary operators.                                                 *)
(***************************************************************************)
BinaryAt(p) == Visiting("BinaryOp") /\ Top.pc = p

\* q is a / b truncated toward zero.
Truncated(q, a, b) == Abs(q * b) <= Abs(a) /\ Abs(a - q * b) < Abs(b)

\* The visit evaluates the left operand and then, whatever it yields, the right
\* one; a division by 0 fails, any other yields the truncated quotient.
C10_Step ==
    /\ BinaryAt("begin") => Pushes(Top.node.left)
    /\ (BinaryAt("left") /\ HasValue) =>
            /\ Pushes(Top.node.right)
            /\ stack'[Len(stack)].left = lastValue[1]
    /\ (BinaryAt("right") /\ HasValue /\ Top.node.op = "DIV") =>
            IF lastValue[1] = 0
            THEN err' = "Division by zero"
            ELSE Returned /\ err' = "none" /\ Truncated(lastValue'[1], Top.left, lastValue[1])
    /\ Visiting("BinaryOp") => (symbolTable' = symbolTable /\ out' = out)

\* q = l / r print(q) over the operands of either sign, and the texts where the
\* operands fail.
C10_Final ==
    /\ \A l, r \in Vals : \A lneg, rneg \in BOOLEAN :
        (text = DivProgram(l, lneg, r, rneg) /\ Finished) =>
            LET a == IF lneg THEN 0 - l ELSE l
                b == IF rneg THEN 0 - r ELSE r
            IN  IF b = 0
                THEN err = "Division by zero" /\ out = <<>> /\ DOMAIN symbolTable = {}
                ELSE /\ pc = "done"
                     /\ \E q \in (0 - MaxVal) .. MaxVal :
                            Truncated(q, a, b) /\ out = Line(q) /\ Holds(<<"q">>, q)
    \* print((0 - 7) / 2)
    /\ (text = <<"p", "r", "i", "n", "t", "(", "(", "0", " ", "-", " ", "7", ")", " ", "/", " ",
            "2", ")">> /\ Finished) => out = <<"-", "3", "\n">>
    \* print(7 / (0 - 2), 0 - 7 / 2) ++ -3 -3\n
    /\ (text = <<"p", "r", "i", "n", "t", "(", "7", " ", "/", " ", "(", "0", " ", "-", " ", "2",
            ")", ",", " ", "0", " ", "-", " ", "7", " ", "/", " ", "2",
            ")">> /\ Finished) => out = <<"-", "3", " ", "-", "3", "\n">>
    \* x = 1 / 0 + z
    /\ (text = <<"x", " ", "=", " ", "1", " ", "/", " ", "0", " ", "+", " ",
            "z">> /\ Finished) => err = "Division by zero"
    \* x = z + 1 / 0
    /\ (text = <<"x", " ", "=", " ", "z", " ", "+", " ", "1", " ", "/", " ",
            "0">> /\ Finished) => err = "Undefined variable"

\* C10: BinaryOp evaluates its left operand before its right and always both, so
\* of two failing operands the left one's error is raised; a division by 0 fails
\* with DivisionByZero and leaves the symbol table and the output unchanged, any
\* other division yields the quotient truncated toward zero ((0 - 7) / 2 = -3).
C10_BinaryOp == []C10_Final /\ [][C10_Step]_vars

C10_Witness ==
    \* print((0 - 7) / 2)
    /\ text = <<"p", "r", "i", "n", "t", "(", "(", "0", " ", "-", " ", "7", ")", " ", "/", " ",
            "2", ")">>
    /\ pc = "done"
    /\ out = <<"-", "3", "\n">>

(***************************************************************************)
(* C11.  The lexer's position.                                             *)
(***************************************************************************)
AtEOF == current_token.type = "EOF_TOKEN"

\* The position is within the text, and at EOF_TOKEN the next call yields
\* EOF_TOKEN again where it stands.
C11_Position ==
    /\ pos \in 0 .. Len(text)
    /\ AtEOF => get_next_token(pos) = Token("EOF_TOKEN", <<>>, pos)

\* A call never moves the position back, a call that returns a token other than
\* EOF_TOKEN moves it forward, and no call changes anything after EOF_TOKEN.
C11_Step ==
    /\ pos' >= pos
    /\ (err' = "none" /\ ~AtEOF') => pos' > pos
    /\ AtEOF => UNCHANGED vars

\* C11: over the calls of get_next_token on a text the position never decreases
\* and never exceeds the length of the text, a call that returns a token other than
\* EOF_TOKEN advances it, after EOF_TOKEN every call returns EOF_TOKEN without
\* moving, and the calls reach EOF_TOKEN or an error after finitely many.
C11_LexerAdvances ==
    /\ []C11_Position
    /\ [][C11_Step]_vars
    /\ <>(AtEOF \/ err # "none")

\* EOF_TOKEN at the end of a text whose last token is an operator.
C11_Witness ==
    /\ text = <<"a", "<", "=">>
    /\ AtEOF
    /\ pos = Len(text)

(***************************************************************************)
(* C12.  Conditions.                                                       *)
(***************************************************************************)
RECURSIVE IsArithmetic(_)

\* The node is an arithmetic expression: numbers, variables and binary operators.
IsArithmetic(node) ==
    CASE node.kind \in {"Number", "Variable"} -> TRUE
      [] node.kind = "BinaryOp" -> IsArithmetic(node.left) /\ IsArithmetic(node.right)
      [] OTHER -> FALSE

\* The node is one comparison of two arithmetic expressions.
IsSimpleCondition(node) ==
    node.kind = "Comparison" /\ IsArithmetic(node.left) /\ IsArithmetic(node.right)

RECURSIVE IsCondition(_)

\* The node is a chain of simple conditions grouped from the left: the right
\* operand of every logical operator is one simple condition.
IsCondition(node) ==
    \/ IsSimpleCondition(node)
    \/ /\ node.kind = "LogicalOp"
       /\ IsCondition(node.left)
       /\ IsSimpleCondition(node.right)

RECURSIVE ConditionsOf(_)

\* The conditions of the if and while statements in a statement.
ConditionsOf(node) ==
    CASE node.kind \in {"If", "While"} ->
            {node.condition} \cup UNION {ConditionsOf(node.body[k]) : k \in 1 .. Len(node.body)}
      [] node.kind = "For" -> UNION {ConditionsOf(node.body[k]) : k \in 1 .. Len(node.body)}
      [] OTHER -> {}

\* The value of 1 < 2 and of 2 < 1.
TruthOf(c) == c = <<"1", " ", "<", " ", "2">>

\* l op r for the operator written op.
Combine(op, l, r) == IF op = And THEN l /\ r ELSE l \/ r

OpToken(op) == IF op = And THEN "AND" ELSE "OR"

\* What the parser makes of 1 < 2 and of 2 < 1.
SimpleNode(c) ==
    IF TruthOf(c) THEN ComparisonNode("LESS_THAN", NumberNode(1), NumberNode(2))
    ELSE ComparisonNode("LESS_THAN", NumberNode(2), NumberNode(1))

\* Every condition the parser yields is grouped from the left.
C12_Shape ==
    pc \in {"accept", "run"} => \A c \in ConditionsOf(ast) : IsCondition(c)

\* c1 op1 c2 op2 c3 is parsed as (c1 op1 c2) op2 c3 and evaluated so, whichever
\* the two operators; a comparison is not chained, put in parentheses or left out.
C12_Final ==
    /\ \A c1, c2, c3 \in Truths : \A op1, op2 \in LogicalOps :
        text = CondProgram(c1, op1, c2, op2, c3) =>
            /\ pc \in {"accept", "run"} /\ ast.kind = "If" =>
                    ast.condition =
                        LogicalOpNode(OpToken(op2),
                            LogicalOpNode(OpToken(op1), SimpleNode(c1), SimpleNode(c2)),
                            SimpleNode(c3))
            /\ Finished =>
                    /\ pc = "done"
                    /\ out = (IF Combine(op2, Combine(op1, TruthOf(c1), TruthOf(c2)),
                                         TruthOf(c3))
                              THEN Line(1) ELSE <<>>) \o Line(2)
    \* if 1 < 2 < 3 then print(1) end
    /\ (text = <<"i", "f", " ", "1", " ", "<", " ", "2", " ", "<", " ", "3", " ", "t", "h", "e",
            "n", " ", "p", "r", "i", "n", "t", "(", "1", ")", " ", "e", "n", "d">> /\ Finished) =>
            err = "Unexpected token" /\ out = <<>>
    \* if (1 < 2) and 2 < 3 then print(1) end
    /\ (text = <<"i", "f", " ", "(", "1", " ", "<", " ", "2", ")", " ", "a", "n", "d", " ", "2",
            " ", "<", " ", "3", " ", "t", "h", "e", "n", " ", "p", "r", "i", "n", "t", "(", "1",
            ")", " ", "e", "n", "d">> /\ Finished) =>
            err = "Unexpected token" /\ out = <<>>
    \* if 1 < 2 and 3 then print(1) end
    /\ (text = <<"i", "f", " ", "1", " ", "<", " ", "2", " ", "a", "n", "d", " ", "3", " ", "t",
            "h", "e", "n", " ", "p", "r", "i", "n", "t", "(", "1", ")", " ", "e", "n",
            "d">> /\ Finished) =>
            err = "Invalid comparison operator" /\ out = <<>>

\* C12: a condition of several comparisons joined by and/or is grouped strictly
\* from the left with no precedence between AND and OR: c1 or c2 and c3 is
\* (c1 or c2) and c3, c1 and c2 or c3 is (c1 and c2) or c3, and each simple
\* condition is exactly one comparison of two arithmetic expressions.
C12_LeftToRight == C12_Shape /\ C12_Final

\* 1 < 2 or 1 < 2 and 2 < 1 has been evaluated to false: print(1) has not run.
C12_Witness ==
    /\ text = CondProgram(<<"1", " ", "<", " ", "2">>, <<" ", "o", "r", " ">>, <<"1", " ", "<",
            " ", "2">>, And, <<"2", " ", "<", " ", "1">>)
    /\ pc = "done"
    /\ out = Line(2)

(***************************************************************************)
(* C13.  Arithmetic expressions.                                           *)
(***************************************************************************)
OpName(op) ==
    CASE op = "+" -> "PLUS"
      [] op = "-" -> "MINUS"
      [] op = "*" -> "MUL"
      [] OTHER -> "DIV"

Value(n) == [err |-> "none", value |-> n]

\* l op r of two evaluations, the first failure being the failure of the whole.
Apply(op, l, r) ==
    IF l.err # "none" THEN l
    ELSE IF r.err # "none" THEN r
    ELSE BinaryOp(OpName(op), l.value, r.value)

\* op2 binds tighter than op1.
Tighter(op2, op1) == op2 \in {"*", "/"} /\ op1 \in {"+", "-"}

\* a op1 b op2 c by precedence and, among equals, from the left.
Standard(a, op1, b, op2, c) ==
    IF Tighter(op2, op1)
    THEN Apply(op1, Value(a), Apply(op2, Value(b), Value(c)))
    ELSE Apply(op2, Apply(op1, Value(a), Value(b)), Value(c))

LeftTree(a, op1, b, op2, c) ==
    BinaryOpNode(OpName(op2), BinaryOpNode(OpName(op1), NumberNode(a), NumberNode(b)),
                 NumberNode(c))

RightTree(a, op1, b, op2, c) ==
    BinaryOpNode(OpName(op1), NumberNode(a),
                 BinaryOpNode(OpName(op2), NumberNode(b), NumberNode(c)))

StandardTree(a, op1, b, op2, c) ==
    IF Tighter(op2, op1) THEN RightTree(a, op1, b, op2, c) ELSE LeftTree(a, op1, b, op2, c)

\* The arithmetic texts, each with the tree and the evaluation it stands for:
\* print(a op1 b op2 c) by precedence and from the left, the parenthesised ones
\* as their parentheses say.
ArithCases ==
    {[text |-> ArithProgram(a, op1, b, op2, c),
      tree |-> StandardTree(a, op1, b, op2, c),
      ends |-> Standard(a, op1, b, op2, c)] :
        a \in ArithOperands, op1 \in ArithOps, b \in ArithOperands, op2 \in ArithOps,
        c \in ArithOperands}
    \cup {[text |-> ParenLeftProgram(7, op1, 2, op2, 1),
           tree |-> LeftTree(7, op1, 2, op2, 1),
           ends |-> Apply(op2, Apply(op1, Value(7), Value(2)), Value(1))] :
            op1 \in ArithOps, op2 \in ArithOps}
    \cup {[text |-> ParenRightProgram(7, op1, 2, op2, 1),
           tree |-> RightTree(7, op1, 2, op2, 1),
           ends |-> Apply(op1, Value(7), Apply(op2, Value(2), Value(1)))] :
            op1 \in ArithOps, op2 \in ArithOps}

\* The run has ended as the evaluation e does: with its line, or with its failure.
EndsAs(e) ==
    IF e.err # "none" THEN pc = "error" /\ err = e.err /\ out = <<>>
    ELSE pc = "done" /\ out = Line(e.value)

\* Every arithmetic text is parsed into its tree and ends as its evaluation does,
\* and so do the texts of the specification.
C13_Final ==
    /\ \A k \in ArithCases :
        text = k.text =>
            /\ pc \in {"accept", "run"} => ast = PrintNode(<<k.tree>>)
            /\ Finished => EndsAs(k.ends)
    \* x = 2\ny = 3\nprint(x + y * 2)
    /\ (text = <<"x", " ", "=", " ", "2", "\n", "y", " ", "=", " ", "3", "\n", "p", "r", "i", "n",
            "t", "(", "x", " ", "+", " ", "y", " ", "*", " ", "2",
            ")">> /\ Finished) => out = Line(8)
    \* x = 10 - 2 - 3 print(x, 8 / 2 / 2, (1 + 2) * 3)
    /\ (text = <<"x", " ", "=", " ", "1", "0", " ", "-", " ", "2", " ", "-", " ", "3", " ", "p",
            "r", "i", "n", "t", "(", "x", ",", " ", "8", " ", "/", " ", "2", " ", "/", " ", "2",
            ",", " ", "(", "1", " ", "+", " ", "2", ")", " ", "*", " ", "3", ")">> /\ Finished) =>
            \* 5 2 9\n
            out = <<"5", " ", "2", " ", "9", "\n">>

\* C13: arithmetic expressions are parsed with the standard precedence and from
\* the left: * and / bind tighter than + and -, operators of equal precedence
\* group from the left, parentheses override both, and x = 2, y = 3,
\* print(x + y * 2) writes the line 8.
C13_Precedence == C13_Final

\* 7 - 2 - 1 has been printed as 4.
C13_Witness ==
    /\ text = ArithProgram(7, "-", 2, "-", 1)
    /\ pc = "done"
    /\ out = Line(4)

(***************************************************************************)
(* C14.  The result slot.                                                  *)
(***************************************************************************)
RECURSIVE IsStatement(_)

\* The node is a statement whose expressions are expressions and whose body is
\* made of statements.
IsStatement(node) ==
    CASE node.kind = "Assign" -> IsArithmetic(node.value)
      [] node.kind = "Print" ->
            /\ node.expressions # <<>>
            /\ \A k \in 1 .. Len(node.expressions) : IsArithmetic(node.expressions[k])
      [] node.kind \in {"If", "While"} ->
            /\ IsCondition(node.condition)
            /\ \A k \in 1 .. Len(node.body) : IsStatement(node.body[k])
      [] node.kind = "For" ->
            /\ IsArithmetic(node.start)
            /\ IsArithmetic(node.end)
            /\ \A k \in 1 .. Len(node.body) : IsStatement(node.body[k])
      [] OTHER -> FALSE

RECURSIVE Eval(_)

\* The value of an expression in the symbol table as it is, the right operand of
\* a decided logical operator left out.
Eval(node) ==
    CASE node.kind = "Number" -> node.value
      [] node.kind = "Variable" -> stoi(symbolTable[node.name].value)
      [] node.kind = "BinaryOp" ->
            BinaryOp(node.op, Eval(node.left), Eval(node.right)).value
      [] node.kind = "Comparison" ->
            Comparison(node.op, Eval(node.left), Eval(node.right)).value
      [] node.kind = "LogicalOp" ->
            IF node.op = "AND" /\ Eval(node.left) = 0 THEN 0
            ELSE IF node.op = "OR" /\ Eval(node.left) # 0 THEN 1
            ELSE Bool(Eval(node.right) # 0)

\* The call f stands where it reads lastValue.
Reads(f) ==
    \/ f.node.kind \in {"BinaryOp", "Comparison", "LogicalOp"} /\ f.pc \in {"left", "right"}
    \/ f.node.kind = "Assign" /\ f.pc = "store"
    \/ f.node.kind = "Print" /\ f.pc = "write"
    \/ f.node.kind \in {"If", "While"} /\ f.pc = "test"
    \/ f.node.kind = "For" /\ f.pc \in {"start", "end"}

\* The child whose value the call f reads there.
ChildRead(f) ==
    CASE f.node.kind \in {"BinaryOp", "Comparison", "LogicalOp"} ->
            IF f.pc = "left" THEN f.node.left ELSE f.node.right
      [] f.node.kind = "Assign" -> f.node.value
      [] f.node.kind = "Print" -> f.node.expressions[f.idx]
      [] f.node.kind \in {"If", "While"} -> f.node.condition
      [] f.node.kind = "For" -> IF f.pc = "start" THEN f.node.start ELSE f.node.end

\* A visit of an expression that returns leaves its own value in lastValue.
C14_Step ==
    (/\ pc = "run"
     /\ stack # <<>>
     /\ Top.node.kind \in {"Number", "Variable", "BinaryOp", "Comparison", "LogicalOp"}
     /\ Returned) =>
        lastValue' = <<Eval(Top.node)>>

\* The parser yields statements only; no access to an empty slot is made; where
\* the slot is read it holds the value of the child just evaluated.
C14_Reads ==
    /\ pc \in {"accept", "run"} => IsStatement(ast)
    /\ err # "bad optional access"
    /\ (pc = "run" /\ stack # <<>> /\ Reads(Top)) =>
            /\ HasValue
            /\ lastValue[1] = Eval(ChildRead(Top))

\* C14: whenever the interpreter reads lastValue after the evaluation of a child
\* expression, the slot is not empty and holds the value of that child, not one
\* left by an earlier node or statement: the statements the parser yields have
\* expressions in their expression positions, and every visit of an expression
\* writes the slot when it returns.
C14_ResultSlot == []C14_Reads /\ [][C14_Step]_vars

\* The inner if reads 1, the value of x >= 1, after x = x + 1 has left 1 as well
\* as after x == 0: the slot is read two visits deep, x being 1.
C14_Witness ==
    \* x = 0 if x == 0 then x = x + 1 if x >= 1 then print(x) end end
    /\ text = <<"x", " ", "=", " ", "0", " ", "i", "f", " ", "x", " ", "=", "=", " ", "0", " ",
            "t", "h", "e", "n", " ", "x", " ", "=", " ", "x", " ", "+", " ", "1", " ", "i", "f",
            " ", "x", " ", ">", "=", " ", "1", " ", "t", "h", "e", "n", " ", "p", "r", "i", "n",
            "t", "(", "x", ")", " ", "e", "n", "d", " ", "e", "n", "d">>
    /\ pc = "run"
    /\ Len(stack) = 2
    /\ Reads(Top)
    /\ Top.node.kind = "If"
    /\ lastValue = <<1>>
    /\ Holds(<<"x">>, 1)

(***************************************************************************)
(* C15.  The types in the symbol table.                                    *)
(***************************************************************************)
\* The text is the decimal text of an integer: to_string yields it.
IsDecimalText(s) == ~StoiFails(s) /\ to_string(stoi(s)) = s

\* Every entry has the tag "INTEGER" and the decimal text of an integer, and no
\* type mismatch is raised.
C15_Entries ==
    /\ \A name \in DOMAIN symbolTable :
            /\ symbolTable[name].type = "INTEGER"
            /\ IsDecimalText(symbolTable[name].value)
    /\ err # "Type mismatch"

\* The table as it is after name is bound to the integer n.
Stored(name, n) ==
    [k \in DOMAIN symbolTable \cup {name} |->
        IF k = name THEN Entry("INTEGER", to_string(n)) ELSE symbolTable[k]]

\* No visit fails to convert a text read from the table; the table changes only
\* where an assignment stores the value of its arithmetic expression and where
\* a for loop stores its counter.
C15_Step ==
    /\ pc = "run" => err' # "stoi"
    /\ symbolTable' # symbolTable =>
        /\ pc = "run"
        /\ stack # <<>>
        /\ \/ /\ Top.node.kind = "Assign"
              /\ Top.pc = "store"
              /\ IsArithmetic(Top.node.value)
              /\ symbolTable' = Stored(Top.node.name, Eval(Top.node.value))
           \/ /\ Top.node.kind = "For"
              /\ Top.pc = "test"
              /\ symbolTable' = Stored(Top.node.var_name, Top.i)

\* C15: every entry of the symbol table has the tag "INTEGER" and a value that is
\* the decimal text of an integer; entries are written by Assign and For only,
\* never with the result of a comparison or of a logical operator; a type
\* mismatch is never raised while a program runs.
C15_IntegerEntries == []C15_Entries /\ [][C15_Step]_vars

\* Assign has bound n to 0 and For has bound i to 2 when the run is over.
C15_Witness ==
    \* n = 2 while n != 0 then for i = n to 2 print(n, i) end n = n - 1 end
    /\ text = <<"n", " ", "=", " ", "2", " ", "w", "h", "i", "l", "e", " ", "n", " ", "!", "=",
            " ", "0", " ", "t", "h", "e", "n", " ", "f", "o", "r", " ", "i", " ", "=", " ", "n",
            " ", "t", "o", " ", "2", " ", "p", "r", "i", "n", "t", "(", "n", ",", " ", "i", ")",
            " ", "e", "n", "d", " ", "n", " ", "=", " ", "n", " ", "-", " ", "1", " ", "e", "n",
            "d">>
    /\ pc = "done"
    /\ DOMAIN symbolTable = {<<"n">>, <<"i">>}
    /\ Holds(<<"n">>, 0)
    /\ Holds(<<"i">>, 2)

=============================================================================
